---- MODULE Spec2Model ----
(***************************************************************************)
(* A model of the arak event indexer: the ABI -> relational schema mapping *)
(* (event_visitor, event_to_tables), the SQLite storage backend            *)
(* (prepare_event, event_block, update, remove), the chain window and the  *)
(* indexer's bootstrap (init) and live (sync) loops, run against a chain   *)
(* that grows, finalizes and reorganizes.                                  *)
(*                                                                         *)
(* Strings of the program are sequences of one-character strings, so that  *)
(* filtering and concatenating names is computed, not assumed.             *)
(***************************************************************************)
EXTENDS Integers, Sequences, FiniteSets, TLC

VARIABLES
    dbTables,   \* the database file: table name -> [types, key, rows]
    dbBlocks,   \* the database file: the _event_block table, event name -> Block
    events,     \* SqliteInner.events of the running instance: name -> PreparedEvent
    lastCall,   \* the storage call made by the last step, with its arguments and outcome
    canon,      \* the node: canon[n] is the canonical block at height n (genesis is implicit)
    forks,      \* the node: forks[n] is the number of blocks ever produced at height n
    nodeFinalized, \* the node: the number of the block it reports as finalized
    adapters,   \* Indexer.adapters, from the configuration
    page_size,  \* Run.page_size
    pc,         \* where the indexer task is
    finalized,  \* init / sync: the `finalized` block last fetched
    queries,    \* init: the eth_getLogs queries in flight, [adapter, from, to] each
    next,       \* sync: the block `next` appended to the chain window
    chain,      \* run: the chain window, [hashes, finalized]
    covered,    \* history: per adapter, the blocks whose logs were fetched and committed and not removed since
    crashes,    \* history: the number of restarts so far
    calls       \* history: the number of calls a client of the storage made directly

vars == <<dbTables, dbBlocks, events, lastCall, canon, forks, nodeFinalized,
          adapters, page_size, pc, finalized, queries, next, chain, covered, crashes, calls>>

----------------------------------------------------------------------------
(* Strings *)

Lower == <<"a","b","c","d","e","f","g","h","i","j","k","l","m",
           "n","o","p","q","r","s","t","u","v","w","x","y","z">>
Upper == <<"A","B","C","D","E","F","G","H","I","J","K","L","M",
           "N","O","P","Q","R","S","T","U","V","W","X","Y","Z">>
Digit == <<"0","1","2","3","4","5","6","7","8","9">>

Range(s) == {s[i] : i \in DOMAIN s}

RECURSIVE Flatten(_)
Flatten(ss) == IF ss = <<>> THEN <<>> ELSE Head(ss) \o Flatten(Tail(ss))

\* format!("{}", n) of an unsigned integer
RECURSIVE Decimal(_)
Decimal(n) == IF n < 10 THEN <<Digit[n + 1]>>
              ELSE Decimal(n \div 10) \o <<Digit[(n % 10) + 1]>>

\* str::to_ascii_lowercase
ToAsciiLowercase(s) ==
    [i \in DOMAIN s |->
        IF \E k \in DOMAIN Upper : Upper[k] = s[i]
        THEN Lower[CHOOSE k \in DOMAIN Upper : Upper[k] = s[i]]
        ELSE s[i]]

----------------------------------------------------------------------------
(* database/event_to_tables.rs: sanitize_name *)

\* The reserved words of keywords.rs that the model's names can meet.
KEYWORDS == { <<"a","s">>, <<"b","y">>, <<"i","n">>, <<"t","o">>,
              <<"a","l","l">>, <<"k","e","y">>, <<"s","e","t">> }

is_allowed_character(c) ==
    c \in Range(Lower) \cup Range(Upper) \cup Range(Digit) \cup {"_"}

\* sanitize_name_, but an underscore is not allowed as the first character
sanitize_name_alnum(name) ==
    LET filtered == SelectSeq(name, is_allowed_character)
        result   == IF filtered = <<>> \/ Head(filtered) = "_"
                    THEN <<"_">> \o filtered
                    ELSE filtered
    IN  IF ToAsciiLowercase(result) \in KEYWORDS
        THEN Append(result, "_")
        ELSE result

sanitize_name_(name) ==
    LET filtered == SelectSeq(name, is_allowed_character)
        result   == IF filtered = <<>> \/ ~is_allowed_character(Head(filtered))
                    THEN <<"_">> \o filtered
                    ELSE filtered
    IN  IF ToAsciiLowercase(result) \in KEYWORDS
        THEN Append(result, "_")
        ELSE result

\* The value a panicking assert_eq! stands for.
Panic == <<"!">>

sanitize_name(name) ==
    LET sanitized == sanitize_name_(name)
    IN  IF sanitize_name_(sanitized) = sanitized THEN sanitized ELSE Panic

----------------------------------------------------------------------------
(* Event descriptors.  A kind is one of                                    *)
(*   [k |-> "leaf", t |-> leaf type]                                       *)
(*   [k |-> "tuple", fields |-> <<field, ...>>]                            *)
(*   [k |-> "fixed", n |-> length, of |-> kind]                            *)
(*   [k |-> "array", of |-> kind]                                          *)
(* a field is [name |-> string, kind |-> kind], and a descriptor is the    *)
(* sequence of its input fields.  A tuple's fields carry the names that    *)
(* solabi keeps in Field.components.                                       *)

Leaf(t) == [k |-> "leaf", t |-> t]

\* visit_kind, but a dynamic array does not forward its name to its element
RECURSIVE visit_kind_dropped(_, _)
visit_kind_dropped(kind, name) ==
    CASE kind.k = "tuple" ->
            <<[v |-> "TupleStart", name |-> name]>>
            \o Flatten([i \in DOMAIN kind.fields |->
                          visit_kind_dropped(kind.fields[i].kind, kind.fields[i].name)])
            \o <<[v |-> "TupleEnd"]>>
      [] kind.k = "fixed" ->
            <<[v |-> "FixedArrayStart", len |-> kind.n, name |-> name]>>
            \o Flatten([i \in 1..kind.n |-> visit_kind_dropped(kind.of, name)])
            \o <<[v |-> "FixedArrayEnd"]>>
      [] kind.k = "array" ->
            <<[v |-> "ArrayStart", name |-> name]>>
            \o visit_kind_dropped(kind.of, <<>>)
            \o <<[v |-> "ArrayEnd"]>>
      [] OTHER ->
            <<[v |-> "Leaf", kind |-> kind.t, name |-> name]>>

\* database/event_visitor.rs: visit_kind
RECURSIVE visit_kind(_, _)
visit_kind(kind, name) ==
    CASE kind.k = "tuple" ->
            <<[v |-> "TupleStart", name |-> name]>>
            \o Flatten([i \in DOMAIN kind.fields |->
                          visit_kind(kind.fields[i].kind, kind.fields[i].name)])
            \o <<[v |-> "TupleEnd"]>>
      [] kind.k = "fixed" ->
            <<[v |-> "FixedArrayStart", len |-> kind.n, name |-> name]>>
            \o Flatten([i \in 1..kind.n |-> visit_kind(kind.of, name)])
            \o <<[v |-> "FixedArrayEnd"]>>
      [] kind.k = "array" ->
            <<[v |-> "ArrayStart", name |-> name]>>
            \o visit_kind(kind.of, name)
            \o <<[v |-> "ArrayEnd"]>>
      [] OTHER ->
            <<[v |-> "Leaf", kind |-> kind.t, name |-> name]>>

visit_field(field) == visit_kind(field.kind, field.name)

\* database/event_to_tables.rs: has_nested_dynamic_arrays
RECURSIVE max_level(_, _, _)
max_level(visits, level, max) ==
    IF visits = <<>> THEN max
    ELSE LET visit == Head(visits)
         IN  CASE visit.v = "ArrayStart" ->
                     max_level(Tail(visits), level + 1,
                               IF level + 1 > max THEN level + 1 ELSE max)
               [] visit.v = "ArrayEnd" -> max_level(Tail(visits), level - 1, max)
               [] OTHER -> max_level(Tail(visits), level, max)

\* has_nested_dynamic_arrays, but one dynamic array already counts as nested
has_nested_dynamic_arrays_any(field) == max_level(visit_field(field), 0, 0) > 0

has_nested_dynamic_arrays(field) == max_level(visit_field(field), 0, 0) > 1

\* database/event_to_tables.rs: handle_field_simple_names, over the visits of one
\* field.  st is [primary, dynamic_arrays, dynamic_array], dynamic_array being 0
\* for None and index + 1 for Some(index).
RECURSIVE handle_visits(_, _, _)
handle_visits(event_name, visits, st) ==
    IF visits = <<>> THEN st
    ELSE
      LET visit == Head(visits)
          st2 ==
            CASE visit.v = "ArrayStart" ->
                   LET index == Len(st.dynamic_arrays)
                       name  == IF visit.name = <<>> THEN <<"a","r","r","a","y">>
                                ELSE visit.name
                   IN  [st EXCEPT
                          !.dynamic_array = index + 1,
                          !.dynamic_arrays = Append(@,
                              [name |-> sanitize_name(event_name \o <<"_">> \o name
                                                      \o <<"_">> \o Decimal(index)),
                               columns |-> <<>>])]
              [] visit.v = "ArrayEnd" -> [st EXCEPT !.dynamic_array = 0]
              [] visit.v = "Leaf" ->
                   LET name == IF visit.name = <<>> THEN <<"f","i","e","l","d">>
                               ELSE visit.name
                       column(table) ==
                           [kind |-> visit.kind,
                            name |-> sanitize_name(name \o <<"_">>
                                                   \o Decimal(Len(table.columns)))]
                   IN  IF st.dynamic_array # 0
                       THEN [st EXCEPT !.dynamic_arrays[st.dynamic_array].columns =
                               Append(@, column(st.dynamic_arrays[st.dynamic_array]))]
                       ELSE [st EXCEPT !.primary.columns = Append(@, column(st.primary))]
              [] OTHER -> st
      IN  handle_visits(event_name, Tail(visits), st2)

\* One call of handle_field_simple_names per input: dynamic_array starts as None.
RECURSIVE handle_fields(_, _, _)
handle_fields(event_name, inputs, st) ==
    IF inputs = <<>> THEN st
    ELSE handle_fields(event_name, Tail(inputs),
            handle_visits(event_name, visit_field(Head(inputs)),
                          [st EXCEPT !.dynamic_array = 0]))

\* event_to_tables, but the array tables are listed last allocated first
event_to_tables_reversed(name, event) ==
    LET sanitized == sanitize_name(name)
    IN  IF sanitized # name THEN [ok |-> FALSE]
        ELSE IF Head(name) = "_" THEN [ok |-> FALSE]
        ELSE IF \E i \in DOMAIN event : has_nested_dynamic_arrays(event[i])
        THEN [ok |-> FALSE]
        ELSE LET st == handle_fields(name, event,
                          [primary |-> [name |-> name, columns |-> <<>>],
                           dynamic_arrays |-> <<>>,
                           dynamic_array |-> 0])
                 n == Len(st.dynamic_arrays)
             IN  [ok |-> TRUE, primary |-> st.primary,
                  dynamic_arrays |-> [k \in 1..n |-> st.dynamic_arrays[n + 1 - k]]]

\* database/event_to_tables.rs: event_to_tables.  [ok |-> FALSE] is Err.
event_to_tables(name, event) ==
    LET sanitized == sanitize_name(name)
    IN  IF sanitized # name THEN [ok |-> FALSE]
        ELSE IF Head(name) = "_" THEN [ok |-> FALSE]
        ELSE IF \E i \in DOMAIN event : has_nested_dynamic_arrays(event[i])
        THEN [ok |-> FALSE]
        ELSE LET st == handle_fields(name, event,
                          [primary |-> [name |-> name, columns |-> <<>>],
                           dynamic_arrays |-> <<>>,
                           dynamic_array |-> 0])
             IN  [ok |-> TRUE, primary |-> st.primary,
                  dynamic_arrays |-> st.dynamic_arrays]

----------------------------------------------------------------------------
(* Values.  A value is one of                                              *)
(*   [k |-> "leaf", t |-> leaf type, v |-> payload]                        *)
(*   [k |-> "tuple", vs |-> <<value, ...>>]                                *)
(*   [k |-> "fixed", of |-> value kind, vs |-> <<value, ...>>]             *)
(*   [k |-> "array", of |-> value kind, vs |-> <<value, ...>>]             *)
(* and a value kind (solabi's ValueKind) is a kind without field names.    *)

\* solabi: Field.kind, the ValueKind of a descriptor's field
RECURSIVE field_kind(_)
field_kind(kind) ==
    CASE kind.k = "tuple" ->
            [k |-> "tuple",
             kinds |-> [i \in DOMAIN kind.fields |-> field_kind(kind.fields[i].kind)]]
      [] kind.k = "fixed" -> [k |-> "fixed", n |-> kind.n, of |-> field_kind(kind.of)]
      [] kind.k = "array" -> [k |-> "array", of |-> field_kind(kind.of)]
      [] OTHER -> kind

\* solabi: Value::kind
RECURSIVE value_kind(_)
value_kind(value) ==
    CASE value.k = "tuple" ->
            [k |-> "tuple", kinds |-> [i \in DOMAIN value.vs |-> value_kind(value.vs[i])]]
      [] value.k = "fixed" -> [k |-> "fixed", n |-> Len(value.vs), of |-> value.of]
      [] value.k = "array" -> [k |-> "array", of |-> value.of]
      [] OTHER -> Leaf(value.t)

\* database/event_visitor.rs: visit_value
RECURSIVE visit_value(_)
visit_value(value) ==
    CASE value.k \in {"tuple", "fixed"} ->
            Flatten([i \in DOMAIN value.vs |-> visit_value(value.vs[i])])
      [] value.k = "array" ->
            <<[v |-> "ArrayStart", len |-> Len(value.vs)]>>
            \o Flatten([i \in DOMAIN value.vs |-> visit_value(value.vs[i])])
            \o <<[v |-> "ArrayEnd"]>>
      [] OTHER -> <<[v |-> "Value", value |-> value]>>

----------------------------------------------------------------------------
(* database/sqlite/mod.rs.  The database file is s = [tables, blocks]:     *)
(* tables maps a table name to [types, key, rows], a row being the         *)
(* sequence of its column values (block_number, log_index,                 *)
(* transaction_index and address as numbers, every later column as         *)
(* [t |-> storage class, v |-> payload]); blocks is the _event_block table.*)
(* An operation on a transaction returns [ok, tables, blocks]: what the    *)
(* transaction holds when the operation returns.                           *)

FIXED_COLUMNS_COUNT == 4

\* FIXED_COLUMNS, and the positions named by PRIMARY_KEY
FIXED_COLUMNS == <<"INTEGER", "INTEGER", "INTEGER", "BLOB">>
PRIMARY_KEY == {1, 2}
\* ARRAY_COLUMN, and the positions named by PRIMARY_KEY_ARRAY
ARRAY_COLUMN == <<"INTEGER">>
PRIMARY_KEY_ARRAY == {1, 2, 5}

abi_kind_to_sql_type(t) == IF t = "bool" THEN "INTEGER" ELSE "BLOB"

\* store_event's visitor: the ToSqlOutput of a leaf value
to_sql(value) == [t |-> IF value.t = "bool" THEN "INTEGER" ELSE "BLOB", v |-> value.v]

\* CREATE TABLE IF NOT EXISTS ... STRICT, as prepare_event's create_table writes it
create_table(tables, is_array, table) ==
    IF table.name \in DOMAIN tables THEN tables
    ELSE [n \in DOMAIN tables \cup {table.name} |->
            IF n = table.name
            THEN [types |-> FIXED_COLUMNS
                            \o (IF is_array THEN ARRAY_COLUMN ELSE <<>>)
                            \o [i \in DOMAIN table.columns |->
                                  abi_kind_to_sql_type(table.columns[i].kind)],
                  key |-> IF is_array THEN PRIMARY_KEY_ARRAY ELSE PRIMARY_KEY,
                  rows |-> {}]
            ELSE tables[n]]

\* prepare_event's create_table calls: the primary table, then the array tables
RECURSIVE create_tables(_, _, _)
create_tables(tables, all, i) ==
    IF i > Len(all) THEN tables
    ELSE create_tables(create_table(tables, i > 1, all[i]), all, i + 1)

\* NEW_EVENT_BLOCK, but ON CONFLICT(event) DO UPDATE to (0, 0)
new_event_block_replace(blocks, name) ==
    [n \in DOMAIN blocks \cup {name} |->
        IF n = name THEN [indexed |-> 0, finalized |-> 0] ELSE blocks[n]]

\* NEW_EVENT_BLOCK
new_event_block(blocks, name) ==
    IF name \in DOMAIN blocks THEN blocks
    ELSE [n \in DOMAIN blocks \cup {name} |->
            IF n = name THEN [indexed |-> 0, finalized |-> 0] ELSE blocks[n]]

\* SqliteInner::prepare_event from `insert_statements` on: `all` are the tables
\* of the event, primary first, `created` and `blocks` the transaction so far.
prepare_statements(evs, event, all, created, blocks) ==
    LET insert_statements ==
            [i \in DOMAIN all |->
                [table |-> all[i].name,
                 params |-> Len(all[i].columns) + FIXED_COLUMNS_COUNT
                            + (IF i > 1 THEN 1 ELSE 0),
                 fields |-> Len(all[i].columns)]]
        remove_statements == [i \in DOMAIN all |-> all[i].name]
    IN  \* prepare_cached rejects an INSERT whose VALUES do not fit the table
        IF \E i \in DOMAIN all :
              Len(created[all[i].name].types) # insert_statements[i].params
        THEN [ok |-> FALSE, tables |-> created, blocks |-> blocks, events |-> evs]
        ELSE [ok |-> TRUE, tables |-> created, blocks |-> blocks,
              events |-> [n \in DOMAIN evs \cup {all[1].name} |->
                            IF n = all[1].name
                            THEN [descriptor |-> event,
                                  insert_statements |-> insert_statements,
                                  remove_statements |-> remove_statements]
                            ELSE evs[n]]]

\* SqliteInner::prepare_event from the planner's answer on
prepare_tables(s, evs, event, tables) ==
    IF ~tables.ok
    THEN [ok |-> FALSE, tables |-> s.tables, blocks |-> s.blocks, events |-> evs]
    ELSE prepare_statements(evs, event, <<tables.primary>> \o tables.dynamic_arrays,
             create_tables(s.tables, <<tables.primary>> \o tables.dynamic_arrays, 1),
             new_event_block(s.blocks, tables.primary.name))

\* prepare_event, but without the lookup of the name in self.events
prepare_event_unchecked(s, evs, name, event) ==
    prepare_tables(s, evs, event, event_to_tables(name, event))

\* SqliteInner::prepare_event on the transaction s; the result carries the
\* instance's events map as well.
prepare_event(s, evs, name, event) ==
    IF name \in DOMAIN evs
    THEN [ok |-> event = evs[name].descriptor,
          tables |-> s.tables, blocks |-> s.blocks, events |-> evs]
    ELSE prepare_tables(s, evs, event, event_to_tables(name, event))

\* SqliteInner::event_block
event_block(blocks, name) ==
    IF name \in DOMAIN blocks THEN [ok |-> TRUE, block |-> blocks[name]]
    ELSE [ok |-> FALSE]

\* set_event_blocks, but the slice is walked from its end
RECURSIVE set_event_blocks_back(_, _, _)
set_event_blocks_back(s, evs, blocks) ==
    IF blocks = <<>> THEN [ok |-> TRUE, tables |-> s.tables, blocks |-> s.blocks]
    ELSE
      LET block == blocks[Len(blocks)]
      IN  IF block.event \notin DOMAIN evs
          THEN [ok |-> FALSE, tables |-> s.tables, blocks |-> s.blocks]
          ELSE IF block.event \notin DOMAIN s.blocks
          THEN [ok |-> FALSE, tables |-> s.tables, blocks |-> s.blocks]
          ELSE set_event_blocks_back(
                 [s EXCEPT !.blocks[block.event] = block.block], evs,
                 SubSeq(blocks, 1, Len(blocks) - 1))

\* SqliteInner::set_event_blocks
RECURSIVE set_event_blocks(_, _, _)
set_event_blocks(s, evs, blocks) ==
    IF blocks = <<>> THEN [ok |-> TRUE, tables |-> s.tables, blocks |-> s.blocks]
    ELSE
      LET block == Head(blocks)
      IN  IF block.event \notin DOMAIN evs
          THEN [ok |-> FALSE, tables |-> s.tables, blocks |-> s.blocks]
          ELSE IF block.event \notin DOMAIN s.blocks     \* rows != 1
          THEN [ok |-> FALSE, tables |-> s.tables, blocks |-> s.blocks]
          ELSE set_event_blocks(
                 [s EXCEPT !.blocks[block.event] = block.block], evs, Tail(blocks))

\* bind_visits, but ArrayEnd leaves in_array set: the values after an array
\* go to the array's bucket
RECURSIVE bind_visits_stay(_, _, _)
bind_visits_stay(visits, sql_values, in_array) ==
    IF visits = <<>> THEN sql_values
    ELSE
      LET visit == Head(visits)
      IN  CASE visit.v = "ArrayStart" ->
                 bind_visits_stay(Tail(visits),
                     Append(sql_values, [some |-> TRUE, len |-> visit.len, values |-> <<>>]),
                     TRUE)
            [] visit.v = "ArrayEnd" -> bind_visits_stay(Tail(visits), sql_values, in_array)
            [] OTHER ->
                 LET at == IF in_array THEN Len(sql_values) ELSE 1
                 IN  bind_visits_stay(Tail(visits),
                         [sql_values EXCEPT ![at].values = Append(@, to_sql(visit.value))],
                         in_array)

\* store_event's visitor over the value visits of one log: sql_values is the
\* sequence of buckets [some, len, values] ((Option<usize>, Vec<ToSqlOutput>)).
RECURSIVE bind_visits(_, _, _)
bind_visits(visits, sql_values, in_array) ==
    IF visits = <<>> THEN sql_values
    ELSE
      LET visit == Head(visits)
      IN  CASE visit.v = "ArrayStart" ->
                 bind_visits(Tail(visits),
                     Append(sql_values, [some |-> TRUE, len |-> visit.len, values |-> <<>>]),
                     TRUE)
            [] visit.v = "ArrayEnd" -> bind_visits(Tail(visits), sql_values, FALSE)
            [] OTHER ->
                 LET at == IF in_array THEN Len(sql_values) ELSE 1
                 IN  bind_visits(Tail(visits),
                         [sql_values EXCEPT ![at].values = Append(@, to_sql(visit.value))],
                         in_array)

\* statement_.insert(params) into a STRICT table with a primary key
insert_row(tables, name, row) ==
    LET table == tables[name]
    IN  IF /\ name \in DOMAIN tables                  \* no such table
           /\ Len(row) = Len(table.types)
           /\ \A i \in DOMAIN row :
                i > FIXED_COLUMNS_COUNT => row[i].t = table.types[i]
           /\ \A other \in table.rows : \E i \in table.key : other[i] # row[i]
        THEN [ok |-> TRUE, tables |-> [tables EXCEPT ![name].rows = @ \cup {row}]]
        ELSE [ok |-> FALSE, tables |-> tables]

\* insert_rows, but array_index counts from one
RECURSIVE insert_rows_one_based(_, _, _, _, _)
insert_rows_one_based(tables, log, statement, bucket, i) ==
    IF i >= (IF bucket.some THEN bucket.len ELSE 1) THEN [ok |-> TRUE, tables |-> tables]
    ELSE
      LET row == <<log.block_number, log.log_index, log.transaction_index, log.address>>
                 \o (IF bucket.some THEN <<[t |-> "INTEGER", v |-> i + 1]>> ELSE <<>>)
                 \o SubSeq(bucket.values, i * statement.fields + 1,
                           (i + 1) * statement.fields)
          r == insert_row(tables, statement.table, row)
      IN  IF r.ok THEN insert_rows_one_based(r.tables, log, statement, bucket, i + 1)
          ELSE r

\* store_event's loop `for i in 0..array_element_count` of one bucket
RECURSIVE insert_rows(_, _, _, _, _)
insert_rows(tables, log, statement, bucket, i) ==
    IF i >= (IF bucket.some THEN bucket.len ELSE 1) THEN [ok |-> TRUE, tables |-> tables]
    ELSE
      LET row == <<log.block_number, log.log_index, log.transaction_index, log.address>>
                 \o (IF bucket.some THEN <<[t |-> "INTEGER", v |-> i]>> ELSE <<>>)
                 \o SubSeq(bucket.values, i * statement.fields + 1,
                           (i + 1) * statement.fields)
          r == insert_row(tables, statement.table, row)
      IN  IF r.ok THEN insert_rows(r.tables, log, statement, bucket, i + 1) ELSE r

\* store_event's loop over insert_statements.iter().zip(sql_values)
RECURSIVE insert_buckets(_, _, _, _, _)
insert_buckets(tables, log, statements, sql_values, n) ==
    IF n > Len(statements) \/ n > Len(sql_values) THEN [ok |-> TRUE, tables |-> tables]
    ELSE
      LET count == IF sql_values[n].some THEN sql_values[n].len ELSE 1
      IN  IF statements[n].fields * count # Len(sql_values[n].values)   \* assert_eq!
          THEN [ok |-> FALSE, tables |-> tables]
          ELSE LET r == insert_rows(tables, log, statements[n], sql_values[n], 0)
               IN  IF r.ok
                   THEN insert_buckets(r.tables, log, statements, sql_values, n + 1)
                   ELSE r

\* store_event, but a log with a first array that has elements gets no row in
\* the primary table
store_event_arrays(tables, evs, log) ==
    IF log.event \notin DOMAIN evs THEN [ok |-> FALSE, tables |-> tables]
    ELSE
      LET event == evs[log.event]
          sql_values == bind_visits(Flatten([i \in DOMAIN log.fields |->
                                              visit_value(log.fields[i])]),
                                    <<[some |-> FALSE, len |-> 0, values |-> <<>>]>>, FALSE)
      IN  IF Len(log.fields) # Len(event.descriptor)
          THEN [ok |-> FALSE, tables |-> tables]
          ELSE IF \E i \in DOMAIN log.fields :
                    value_kind(log.fields[i]) # field_kind(event.descriptor[i].kind)
          THEN [ok |-> FALSE, tables |-> tables]
          ELSE IF Len(sql_values) > 1 /\ sql_values[2].len > 0
          THEN insert_buckets(tables, log, Tail(event.insert_statements),
                              Tail(sql_values), 1)
          ELSE insert_buckets(tables, log, event.insert_statements, sql_values, 1)

\* SqliteInner::store_event
store_event(tables, evs, log) ==
    IF log.event \notin DOMAIN evs THEN [ok |-> FALSE, tables |-> tables]
    ELSE
      LET event == evs[log.event]
      IN  IF Len(log.fields) # Len(event.descriptor)
          THEN [ok |-> FALSE, tables |-> tables]
          ELSE IF \E i \in DOMAIN log.fields :
                    value_kind(log.fields[i]) # field_kind(event.descriptor[i].kind)
          THEN [ok |-> FALSE, tables |-> tables]
          ELSE insert_buckets(tables, log, event.insert_statements,
                   bind_visits(Flatten([i \in DOMAIN log.fields |->
                                           visit_value(log.fields[i])]),
                               <<[some |-> FALSE, len |-> 0, values |-> <<>>]>>, FALSE),
                   1)

RECURSIVE store_events(_, _, _)
store_events(tables, evs, logs) ==
    IF logs = <<>> THEN [ok |-> TRUE, tables |-> tables]
    ELSE LET r == store_event(tables, evs, Head(logs))
         IN  IF r.ok THEN store_events(r.tables, evs, Tail(logs)) ELSE r

\* SqliteInner::update
update(s, evs, blocks, logs) ==
    LET b == set_event_blocks(s, evs, blocks)
    IN  IF ~b.ok THEN b
        ELSE LET r == store_events(b.tables, evs, logs)
             IN  [ok |-> r.ok, tables |-> r.tables, blocks |-> b.blocks]

\* remove_rows, but the DELETE keeps the rows of the uncled block itself
RECURSIVE remove_rows_after(_, _, _, _)
remove_rows_after(s, statements, event, block) ==
    IF statements = <<>> THEN s
    ELSE remove_rows_after(
           [tables |-> [s.tables EXCEPT
                          ![Head(statements)].rows = {row \in @ : ~(row[1] > block)}],
            blocks |-> IF event \in DOMAIN s.blocks
                       THEN [s.blocks EXCEPT ![event].indexed = block - 1]
                       ELSE s.blocks],
           Tail(statements), event, block)

\* SqliteInner::remove's loop over one event's remove_statements
RECURSIVE remove_rows(_, _, _, _)
remove_rows(s, statements, event, block) ==
    IF statements = <<>> THEN s
    ELSE remove_rows(
           [tables |-> [s.tables EXCEPT
                          ![Head(statements)].rows = {row \in @ : ~(row[1] >= block)}],
            \* SET_INDEXED_BLOCK
            blocks |-> IF event \in DOMAIN s.blocks
                       THEN [s.blocks EXCEPT ![event].indexed = block - 1]
                       ELSE s.blocks],
           Tail(statements), event, block)

\* remove, but an uncle at block 0 is taken like any other
RECURSIVE remove_from_zero(_, _, _)
remove_from_zero(s, evs, uncles) ==
    IF uncles = <<>> THEN [ok |-> TRUE, tables |-> s.tables, blocks |-> s.blocks]
    ELSE
      LET uncle == Head(uncles)
      IN  IF uncle.event \notin DOMAIN evs
          THEN [ok |-> FALSE, tables |-> s.tables, blocks |-> s.blocks]
          ELSE IF \E t \in Range(evs[uncle.event].remove_statements) :
                    t \notin DOMAIN s.tables          \* no such table
          THEN [ok |-> FALSE, tables |-> s.tables, blocks |-> s.blocks]
          ELSE remove_from_zero(remove_rows(s, evs[uncle.event].remove_statements,
                                            uncle.event, uncle.number),
                                evs, Tail(uncles))

\* SqliteInner::remove
RECURSIVE remove(_, _, _)
remove(s, evs, uncles) ==
    IF uncles = <<>> THEN [ok |-> TRUE, tables |-> s.tables, blocks |-> s.blocks]
    ELSE
      LET uncle == Head(uncles)
      IN  IF uncle.number = 0 \/ uncle.event \notin DOMAIN evs
          THEN [ok |-> FALSE, tables |-> s.tables, blocks |-> s.blocks]
          ELSE IF \E t \in Range(evs[uncle.event].remove_statements) :
                    t \notin DOMAIN s.tables          \* no such table
          THEN [ok |-> FALSE, tables |-> s.tables, blocks |-> s.blocks]
          ELSE remove(remove_rows(s, evs[uncle.event].remove_statements,
                                  uncle.event, uncle.number),
                      evs, Tail(uncles))

\* transaction, but what the operation did before it failed is committed
transaction_committed(s, r) == [ok |-> r.ok, tables |-> r.tables, blocks |-> r.blocks]

\* impl Database for Sqlite: the operation runs in a transaction that is
\* committed when it returns Ok and dropped, which rolls it back, when it
\* returns Err.  s is the database before the call, r the operation's result.
transaction(s, r) ==
    IF r.ok THEN [ok |-> TRUE, tables |-> r.tables, blocks |-> r.blocks]
    ELSE [ok |-> FALSE, tables |-> s.tables, blocks |-> s.blocks]

----------------------------------------------------------------------------
(* database/postgres.rs: prepare_event of the server backend, on the same  *)
(* [tables, blocks].  Its result carries res: "Ok", "Err", or "Panic" when *)
(* the call does not return.                                               *)

\* FIXED_COLUMNS and ARRAY_COLUMN of postgres.rs
Postgres_FIXED_COLUMNS == <<"BIGINT", "BIGINT", "BIGINT", "BYTEA">>
Postgres_ARRAY_COLUMN == <<"BIGINT">>

Postgres_abi_kind_to_sql_type(t) ==
    CASE t \in {"int", "uint"} -> "NUMERIC"
      [] t = "bool" -> "BOOL"
      [] t = "string" -> "TEXT"
      [] OTHER -> "BYTEA"

\* Postgres::store_event's visitor: the Postgres type of the boxed ToSql of a
\* leaf value (PgNumeric, Vec<u8>, i64)
Postgres_to_sql(value) ==
    [t |-> CASE value.t \in {"int", "uint"} -> "NUMERIC"
             [] value.t = "bool" -> "INT8"
             [] OTHER -> "BYTEA",
     v |-> value.v]

\* Postgres::create_table: the match on the column type has arms for INT8,
\* BYTEA and NUMERIC and is unreachable!() for every other type
Postgres_create_table(tables, is_array, table) ==
    IF \E i \in DOMAIN table.columns :
          Postgres_abi_kind_to_sql_type(table.columns[i].kind) \notin {"INT8", "BYTEA", "NUMERIC"}
    THEN [res |-> "Panic", tables |-> tables]
    ELSE IF table.name \in DOMAIN tables THEN [res |-> "Ok", tables |-> tables]
    ELSE [res |-> "Ok",
          tables |-> [n \in DOMAIN tables \cup {table.name} |->
                        IF n = table.name
                        THEN [types |-> Postgres_FIXED_COLUMNS
                                        \o (IF is_array THEN Postgres_ARRAY_COLUMN ELSE <<>>)
                                        \o [i \in DOMAIN table.columns |->
                                              Postgres_abi_kind_to_sql_type(table.columns[i].kind)],
                              key |-> IF is_array THEN PRIMARY_KEY_ARRAY ELSE PRIMARY_KEY,
                              rows |-> {}]
                        ELSE tables[n]]]

\* Postgres::prepare_event's create_table calls
RECURSIVE Postgres_create_tables(_, _, _)
Postgres_create_tables(tables, all, i) ==
    IF i > Len(all) THEN [res |-> "Ok", tables |-> tables]
    ELSE LET r == Postgres_create_table(tables, i > 1, all[i])
         IN  IF r.res # "Ok" THEN r
             ELSE Postgres_create_tables(r.tables, all, i + 1)

\* Postgres::prepare_event; the transaction is rolled back unless the call
\* returns Ok.
Postgres_prepare_event(s, evs, name, event) ==
    IF name \in DOMAIN evs
    THEN [res |-> IF event = evs[name].descriptor THEN "Ok" ELSE "Err",
          tables |-> s.tables, blocks |-> s.blocks, events |-> evs]
    ELSE
      LET tables == event_to_tables(name, event)
      IN  IF ~tables.ok
          THEN [res |-> "Err", tables |-> s.tables, blocks |-> s.blocks, events |-> evs]
          ELSE
            LET all == <<tables.primary>> \o tables.dynamic_arrays
                created == Postgres_create_tables(s.tables, all, 1)
            IN  IF created.res # "Ok"
                THEN [res |-> created.res, tables |-> s.tables, blocks |-> s.blocks,
                      events |-> evs]
                \* transaction.prepare rejects an INSERT with more expressions
                \* than the table has columns
                ELSE IF \E i \in DOMAIN all :
                          Len(all[i].columns) + FIXED_COLUMNS_COUNT
                            + (IF i > 1 THEN 1 ELSE 0)
                          > Len(created.tables[all[i].name].types)
                THEN [res |-> "Err", tables |-> s.tables, blocks |-> s.blocks,
                      events |-> evs]
                ELSE [res |-> "Ok", tables |-> created.tables,
                      blocks |-> new_event_block(s.blocks, all[1].name),
                      events |-> [n \in DOMAIN evs \cup {all[1].name} |->
                                    IF n = all[1].name
                                    THEN [descriptor |-> event,
                                          insert_statements |->
                                            [i \in DOMAIN all |->
                                               [table |-> all[i].name,
                                                params |-> Len(all[i].columns)
                                                           + FIXED_COLUMNS_COUNT
                                                           + (IF i > 1 THEN 1 ELSE 0),
                                                fields |-> Len(all[i].columns)]],
                                          remove_statements |->
                                            [i \in DOMAIN all |-> all[i].name]]
                                    ELSE evs[n]]]

----------------------------------------------------------------------------
(* indexer/chain.rs: the chain window [hashes, finalized]; the front of    *)
(* the deque is hashes[1].                                                 *)

Chain_new(number, hash) == [hashes |-> <<hash>>, finalized |-> number]

Chain_next(c) == c.finalized + Len(c.hashes)

\* Chain_append, but the new hash is pushed to the back of the deque
Chain_append_back(c, hash, parent) ==
    IF parent # c.hashes[1]
    THEN IF Len(c.hashes) > 1
         THEN [res |-> "Reorg", chain |-> [c EXCEPT !.hashes = Tail(@)]]
         ELSE [res |-> "Err", chain |-> c]
    ELSE [res |-> "Ok", chain |-> [c EXCEPT !.hashes = @ \o <<hash>>]]

\* Chain_append, but a reorg replaces the front by the new hash
Chain_append_replace(c, hash, parent) ==
    IF parent # c.hashes[1]
    THEN IF Len(c.hashes) > 1
         THEN [res |-> "Reorg", chain |-> [c EXCEPT !.hashes = <<hash>> \o Tail(@)]]
         ELSE [res |-> "Err", chain |-> c]
    ELSE [res |-> "Ok", chain |-> [c EXCEPT !.hashes = <<hash>> \o @]]

\* Chain_append, but a reorg leaves the front in the deque
Chain_append_keep(c, hash, parent) ==
    IF parent # c.hashes[1]
    THEN IF Len(c.hashes) > 1
         THEN [res |-> "Reorg", chain |-> c]
         ELSE [res |-> "Err", chain |-> c]
    ELSE [res |-> "Ok", chain |-> [c EXCEPT !.hashes = <<hash>> \o @]]

Chain_append(c, hash, parent) ==
    IF parent # c.hashes[1]
    THEN IF Len(c.hashes) > 1
         THEN [res |-> "Reorg", chain |-> [c EXCEPT !.hashes = Tail(@)]]
         ELSE [res |-> "Err", chain |-> c]
    ELSE [res |-> "Ok", chain |-> [c EXCEPT !.hashes = <<hash>> \o @]]

\* Chain_finalize, but `keep` is computed after self.finalized is assigned
Chain_finalize_late(c, number) ==
    IF ~(c.finalized <= number /\ number < Chain_next(c))
    THEN [ok |-> FALSE, old |-> c.finalized, chain |-> c]
    ELSE [ok |-> TRUE, old |-> c.finalized,
          chain |-> [hashes |-> c.hashes, finalized |-> number]]

\* Chain::finalize, but `self.finalized = finalized` is left out
Chain_finalize_stale(c, number) ==
    IF ~(c.finalized <= number /\ number < Chain_next(c))
    THEN [ok |-> FALSE, old |-> c.finalized, chain |-> c]
    ELSE LET keep == Chain_next(c) - number
         IN  [ok |-> TRUE, old |-> c.finalized,
              chain |-> [hashes |-> SubSeq(c.hashes, 1, keep), finalized |-> c.finalized]]

\* Chain::finalize
Chain_finalize(c, number) ==
    IF ~(c.finalized <= number /\ number < Chain_next(c))
    THEN [ok |-> FALSE, old |-> c.finalized, chain |-> c]
    ELSE LET keep == Chain_next(c) - number
         IN  [ok |-> TRUE, old |-> c.finalized,
              chain |-> [hashes |-> SubSeq(c.hashes, 1, keep), finalized |-> number]]

----------------------------------------------------------------------------
(* The node behind the RPC client.  A block is [number, hash, parent_hash],*)
(* its hash <<number, fork>> with fork counting the blocks produced at     *)
(* that height before it.  The logs a block holds are a function of its    *)
(* hash: a reorganized height holds other logs.                            *)

MaxBlocks == 4      \* blocks the node ever produces
MaxCrashes == 1     \* restarts of the indexer
MaxPage == 2        \* the largest configured page size

Genesis == [number |-> 0, hash |-> <<0, 0>>, parent_hash |-> <<0, 0>>]

\* eth::GetBlockByNumber for a block number
get_block(n) ==
    IF n = 0 THEN [some |-> TRUE, block |-> Genesis]
    ELSE IF n <= Len(canon) THEN [some |-> TRUE, block |-> canon[n]]
    ELSE [some |-> FALSE]

\* The values an event of the given kind carries in a block, by a seed.
RECURSIVE sample_value(_, _)
sample_value(kind, seed) ==
    CASE kind.k = "tuple" ->
            [k |-> "tuple",
             vs |-> [i \in DOMAIN kind.fields |-> sample_value(kind.fields[i].kind, seed + i)]]
      [] kind.k = "fixed" ->
            [k |-> "fixed", of |-> field_kind(kind.of),
             vs |-> [i \in 1..kind.n |-> sample_value(kind.of, seed + i)]]
      [] kind.k = "array" ->
            [k |-> "array", of |-> field_kind(kind.of),
             vs |-> [i \in 1..(seed % 3) |-> sample_value(kind.of, seed + i)]]
      [] OTHER -> [k |-> "leaf", t |-> kind.t, v |-> seed % 2]

\* eth::GetLogs with LogBlocks::Hash(hash) and the filter of adapter i: the
\* block holds none, one, or two logs of the event, the second with data
\* that does not decode.
block_logs(i, hash) ==
    LET seed == hash[1] + hash[2] + i
        log(k) == [block_number |-> hash[1],
                   log_index |-> k * Len(adapters) + (i - 1),
                   transaction_index |-> hash[2],
                   address |-> i,
                   data |-> [ok |-> k = 0,
                             fields |-> [j \in DOMAIN adapters[i].signature |->
                                           sample_value(adapters[i].signature[j].kind,
                                                        seed + j)]]]
    IN  [k \in 1..(seed % 3) |-> log(k - 1)]

\* eth::GetLogs with LogBlocks::Range{from, to} and the filter of adapter i
range_logs(i, from, to) ==
    Flatten([n \in 1..(to - from + 1) |-> block_logs(i, canon[from + n - 1].hash)])

----------------------------------------------------------------------------
(* indexer/mod.rs *)

\* database_logs, but a log that does not decode discards the whole answer
database_logs_strict(i, logs) ==
    IF \E k \in DOMAIN logs : ~logs[k].data.ok THEN <<>>
    ELSE [k \in DOMAIN logs |->
            [event |-> adapters[i].name,
             block_number |-> logs[k].block_number,
             log_index |-> logs[k].log_index,
             transaction_index |-> logs[k].transaction_index,
             address |-> logs[k].address,
             fields |-> logs[k].data.fields]]

\* database_logs: the logs of adapter i that decode, as database::Log
database_logs(i, logs) ==
    LET decoded == SelectSeq(logs, LAMBDA log : log.data.ok)
    IN  [k \in DOMAIN decoded |->
            [event |-> adapters[i].name,
             block_number |-> decoded[k].block_number,
             log_index |-> decoded[k].log_index,
             transaction_index |-> decoded[k].transaction_index,
             address |-> decoded[k].address,
             fields |-> decoded[k].data.fields]]

\* Indexer::init_blocks
init_blocks(blocks) ==
    [i \in DOMAIN adapters |->
        LET indexed == event_block(blocks, adapters[i].name).block.indexed
        IN  IF adapters[i].start > indexed + 1 THEN adapters[i].start ELSE indexed + 1]

Min(S) == CHOOSE x \in S : \A y \in S : x <= y

\* Indexer::init, its first loop: prepare_event for each adapter, each call
\* a transaction of its own; the first Err ends it.
RECURSIVE prepare_all(_, _, _)

\* ... where r is what prepare_event answered for the adapter before `todo`
prepare_next(s, todo, r) ==
    IF r.ok THEN prepare_all(transaction(s, r), r.events, todo)
    ELSE [ok |-> FALSE, tables |-> transaction(s, r).tables,
          blocks |-> transaction(s, r).blocks, events |-> r.events]

prepare_all(s, evs, todo) ==
    IF todo = <<>>
    THEN [ok |-> TRUE, tables |-> s.tables, blocks |-> s.blocks, events |-> evs]
    ELSE prepare_next(s, Tail(todo),
                      prepare_event(s, evs, Head(todo).name, Head(todo).signature))

\* unfinalized, but with an Uncle for every adapter
unfinalized_all(blocks) ==
    [i \in DOMAIN adapters |->
        [event |-> adapters[i].name, number |-> blocks[adapters[i].name].finalized + 1]]

\* unfinalized, but the Uncle is at the finalized block itself
unfinalized_from_finalized(blocks) ==
    LET is == SelectSeq([i \in DOMAIN adapters |-> i],
                 LAMBDA i : blocks[adapters[i].name].indexed
                            > blocks[adapters[i].name].finalized)
    IN  [k \in DOMAIN is |->
            [event |-> adapters[is[k]].name,
             number |-> blocks[adapters[is[k]].name].finalized]]

\* Indexer::init, `unfinalized`: an Uncle at finalized + 1 for each adapter
\* whose stored block has indexed > finalized
unfinalized(blocks) ==
    LET is == SelectSeq([i \in DOMAIN adapters |-> i],
                 LAMBDA i : blocks[adapters[i].name].indexed
                            > blocks[adapters[i].name].finalized)
    IN  [k \in DOMAIN is |->
            [event |-> adapters[is[k]].name,
             number |-> blocks[adapters[is[k]].name].finalized + 1]]

\* What a step records of the storage call it made.
Call(op, ok, uncles, blocks) == [op |-> op, ok |-> ok, uncles |-> uncles, blocks |-> blocks]

Database == [tables |-> dbTables, blocks |-> dbBlocks]

\* history: the blocks still covered once the uncles are removed
uncover(uncles) ==
    [i \in DOMAIN covered |->
        {b \in covered[i] :
            \A k \in DOMAIN uncles :
                uncles[k].event = adapters[i].name => b < uncles[k].number}]

----------------------------------------------------------------------------
(* The configurations the indexer is run with: two adapters, the first     *)
(* starting at block 0 or 3; in the second configuration the array table   *)
(* of the first event has the name of the second event.                    *)

Bools == [k |-> "array", of |-> Leaf("bool")]

Configs ==
    { << [name |-> <<"e">>, signature |-> <<>>, start |-> s],
         [name |-> <<"f">>, signature |-> <<[name |-> <<"b">>, kind |-> Bools]>>,
          start |-> 0] >> : s \in {0, 3} }
    \cup
    { << [name |-> <<"e">>, signature |-> <<[name |-> <<"b">>, kind |-> Bools]>>,
          start |-> 3],
         [name |-> <<"e", "_", "b", "_", "0">>,
          signature |-> <<[name |-> <<>>, kind |-> Leaf("bool")],
                          [name |-> <<>>, kind |-> Leaf("bool")]>>,
          start |-> 0] >> }

Init ==
    /\ dbTables = <<>>
    /\ dbBlocks = <<>>
    /\ events = <<>>
    /\ lastCall = Call("none", TRUE, <<>>, <<>>)
    /\ canon = <<>>
    /\ forks = [n \in 1..MaxBlocks |-> 0]
    /\ nodeFinalized = 0
    /\ adapters \in Configs
    /\ page_size \in 1..MaxPage
    /\ pc = "start"
    /\ finalized = Genesis
    /\ queries = <<>>
    /\ next = Genesis
    /\ chain = Chain_new(0, Genesis.hash)
    /\ covered = [i \in DOMAIN adapters |-> {}]
    /\ crashes = 0
    /\ calls = 0

node == <<canon, forks, nodeFinalized>>
config == <<adapters, page_size>>

----------------------------------------------------------------------------
(* The node *)

Minted == LET RECURSIVE sum(_)
              sum(n) == IF n = 0 THEN 0 ELSE forks[n] + sum(n - 1)
          IN  sum(MaxBlocks)

\* The head is replaced from height n on by a new block: n = head + 1 is a
\* new block on top, n <= head a reorganization, which never reaches the
\* finalized block.
Produce(n) ==
    /\ Minted < MaxBlocks
    /\ n > nodeFinalized
    /\ n <= Len(canon) + 1
    /\ canon' = Append(SubSeq(canon, 1, n - 1),
                       [number |-> n, hash |-> <<n, forks[n]>>,
                        parent_hash |-> get_block(n - 1).block.hash])
    /\ forks' = [forks EXCEPT ![n] = @ + 1]
    /\ UNCHANGED <<nodeFinalized, dbTables, dbBlocks, events, lastCall, config, pc,
                   finalized, queries, next, chain, covered, crashes, calls>>

Mine == Produce(Len(canon) + 1)

Reorg == \E n \in 1..Len(canon) : Produce(n)

Finalize ==
    /\ \E n \in (nodeFinalized + 1)..Len(canon) : nodeFinalized' = n
    /\ UNCHANGED <<canon, forks, dbTables, dbBlocks, events, lastCall, config, pc,
                   finalized, queries, next, chain, covered, crashes, calls>>

----------------------------------------------------------------------------
(* Indexer::init *)

\* The loop over prepare_event.
InitPrepare ==
    /\ pc = "start"
    /\ \E r \in {prepare_all(Database, events, adapters)} :
           /\ dbTables' = r.tables
           /\ dbBlocks' = r.blocks
           /\ events' = r.events
           /\ lastCall' = Call("prepare_event", r.ok, <<>>, <<>>)
           /\ pc' = IF r.ok THEN "recover" ELSE "failed"
    /\ UNCHANGED <<node, config, finalized, queries, next, chain, covered, crashes, calls>>

\* The removal of the rows of unfinalized blocks.
InitRecover ==
    /\ pc = "recover"
    /\ \E uncles \in {unfinalized(dbBlocks)} :
       \E r \in {transaction(Database, remove(Database, events, uncles))} :
           IF uncles # <<>>
           THEN /\ dbTables' = r.tables
                /\ dbBlocks' = r.blocks
                /\ lastCall' = Call("remove", r.ok, uncles, <<>>)
                /\ covered' = IF r.ok THEN uncover(uncles) ELSE covered
                /\ pc' = IF r.ok THEN "boot" ELSE "failed"
           ELSE /\ lastCall' = Call("none", TRUE, <<>>, <<>>)
                /\ pc' = "boot"
                /\ UNCHANGED <<dbTables, dbBlocks, covered>>
    /\ UNCHANGED <<events, node, config, finalized, queries, next, chain, crashes, calls>>

\* One turn of the loop up to the batch of eth_getLogs: the finalized block
\* is fetched; either init returns it, and run builds the chain window from
\* it, or the queries of this page are sent.
InitPage ==
    /\ pc = "boot"
    /\ \E fin \in {get_block(nodeFinalized).block} :
       \E init \in {init_blocks(dbBlocks)} :
       \E earliest \in {Min(Range(init))} :
       \E to \in {Min({fin.number, earliest + page_size - 1})} :
       \E is \in {SelectSeq([i \in DOMAIN adapters |-> i], LAMBDA i : init[i] <= to)} :
           /\ finalized' = fin
           /\ IF fin.number <= earliest
              THEN /\ chain' = Chain_new(fin.number, fin.hash)
                   /\ pc' = "sync"
                   /\ UNCHANGED queries
              ELSE /\ queries' = [k \in DOMAIN is |->
                                    [adapter |-> is[k], from |-> init[is[k]], to |-> to]]
                   /\ pc' = "logs"
                   /\ UNCHANGED chain
    /\ lastCall' = Call("none", TRUE, <<>>, <<>>)
    /\ UNCHANGED <<dbTables, dbBlocks, events, node, config, next, covered, crashes, calls>>

\* InitUpdate, but the watermark written is the block before the page
InitUpdate_before ==
    /\ pc = "logs"
    /\ \E blocks \in {[k \in DOMAIN queries |->
                          [event |-> adapters[queries[k].adapter].name,
                           block |-> [indexed |-> queries[k].from - 1,
                                      finalized |-> finalized.number]]]} :
       \E logs \in {Flatten([k \in DOMAIN queries |->
                              database_logs(queries[k].adapter,
                                  range_logs(queries[k].adapter,
                                             queries[k].from, queries[k].to))])} :
       \E r \in {transaction(Database, update(Database, events, blocks, logs))} :
           /\ dbTables' = r.tables
           /\ dbBlocks' = r.blocks
           /\ lastCall' = Call("update", r.ok, <<>>, blocks)
           /\ covered' = IF r.ok
                         THEN [i \in DOMAIN covered |->
                                 covered[i] \cup
                                 UNION {queries[k].from..queries[k].to :
                                          k \in {k \in DOMAIN queries : queries[k].adapter = i}}]
                         ELSE covered
           /\ pc' = IF r.ok THEN "boot" ELSE "failed"
    /\ queries' = <<>>
    /\ UNCHANGED <<events, node, config, finalized, next, chain, crashes, calls>>

\* The batch answers, and the page is stored.
InitUpdate ==
    /\ pc = "logs"
    /\ \E blocks \in {[k \in DOMAIN queries |->
                          [event |-> adapters[queries[k].adapter].name,
                           block |-> [indexed |-> queries[k].to,
                                      finalized |-> finalized.number]]]} :
       \E logs \in {Flatten([k \in DOMAIN queries |->
                              database_logs(queries[k].adapter,
                                  range_logs(queries[k].adapter,
                                             queries[k].from, queries[k].to))])} :
       \E r \in {transaction(Database, update(Database, events, blocks, logs))} :
           /\ dbTables' = r.tables
           /\ dbBlocks' = r.blocks
           /\ lastCall' = Call("update", r.ok, <<>>, blocks)
           /\ covered' = IF r.ok
                         THEN [i \in DOMAIN covered |->
                                 covered[i] \cup
                                 UNION {queries[k].from..queries[k].to :
                                          k \in {k \in DOMAIN queries : queries[k].adapter = i}}]
                         ELSE covered
           /\ pc' = IF r.ok THEN "boot" ELSE "failed"
    /\ queries' = <<>>
    /\ UNCHANGED <<events, node, config, finalized, next, chain, crashes, calls>>

----------------------------------------------------------------------------
(* Indexer::sync *)

\* SyncIdle, but the tick resets the chain window to the genesis block
SyncIdle_rebuild ==
    /\ pc = "sync"
    /\ ~get_block(Chain_next(chain)).some
    /\ lastCall' = Call("sleep", TRUE, <<>>, <<>>)
    /\ chain' = Chain_new(0, Genesis.hash)
    /\ UNCHANGED <<dbTables, dbBlocks, events, node, config, pc, finalized, queries,
                   next, covered, crashes, calls>>

\* The block at chain.next() does not exist yet: sync returns false, and run
\* sleeps poll_interval.
SyncIdle ==
    /\ pc = "sync"
    /\ ~get_block(Chain_next(chain)).some
    /\ lastCall' = Call("sleep", TRUE, <<>>, <<>>)
    /\ UNCHANGED <<dbTables, dbBlocks, events, node, config, pc, finalized, queries,
                   next, chain, covered, crashes, calls>>

\* SyncBlock, but on Append::Reorg the Uncles are at the block fetched
SyncBlock_fetched ==
    /\ pc = "sync"
    /\ get_block(Chain_next(chain)).some
    /\ \E block \in {get_block(Chain_next(chain)).block} :
       \E a \in {Chain_append(chain, block.hash, block.parent_hash)} :
       \E uncles \in {[i \in DOMAIN adapters |->
                         [event |-> adapters[i].name, number |-> block.number]]} :
       \E r \in {transaction(Database, remove(Database, events, uncles))} :
           /\ next' = block
           /\ chain' = a.chain
           /\ CASE a.res = "Ok" ->
                      /\ pc' = "block"
                      /\ lastCall' = Call("none", TRUE, <<>>, <<>>)
                      /\ UNCHANGED <<dbTables, dbBlocks, covered>>
                [] a.res = "Reorg" ->
                      /\ dbTables' = r.tables
                      /\ dbBlocks' = r.blocks
                      /\ lastCall' = Call("remove", r.ok, uncles, <<>>)
                      /\ covered' = IF r.ok THEN uncover(uncles) ELSE covered
                      /\ pc' = IF r.ok THEN "sync" ELSE "failed"
                [] OTHER ->
                      /\ pc' = "failed"
                      /\ lastCall' = Call("none", TRUE, <<>>, <<>>)
                      /\ UNCHANGED <<dbTables, dbBlocks, covered>>
    /\ UNCHANGED <<events, node, config, finalized, queries, crashes, calls>>

\* The block is fetched and appended; on Append::Reorg the uncled block is
\* removed and sync returns.
SyncBlock ==
    /\ pc = "sync"
    /\ get_block(Chain_next(chain)).some
    /\ \E block \in {get_block(Chain_next(chain)).block} :
       \E a \in {Chain_append(chain, block.hash, block.parent_hash)} :
       \E uncles \in {[i \in DOMAIN adapters |->
                         [event |-> adapters[i].name, number |-> block.number - 1]]} :
       \E r \in {transaction(Database, remove(Database, events, uncles))} :
           /\ next' = block
           /\ chain' = a.chain
           /\ CASE a.res = "Ok" ->
                      /\ pc' = "block"
                      /\ lastCall' = Call("none", TRUE, <<>>, <<>>)
                      /\ UNCHANGED <<dbTables, dbBlocks, covered>>
                [] a.res = "Reorg" ->
                      /\ dbTables' = r.tables
                      /\ dbBlocks' = r.blocks
                      /\ lastCall' = Call("remove", r.ok, uncles, <<>>)
                      /\ covered' = IF r.ok THEN uncover(uncles) ELSE covered
                      /\ pc' = IF r.ok THEN "sync" ELSE "failed"
                [] OTHER ->
                      /\ pc' = "failed"
                      /\ lastCall' = Call("none", TRUE, <<>>, <<>>)
                      /\ UNCHANGED <<dbTables, dbBlocks, covered>>
    /\ UNCHANGED <<events, node, config, finalized, queries, crashes, calls>>

\* sync_logs, but with blocks = LogBlocks::Range from next.number to itself
sync_logs_by_number(i) ==
    IF next.number \in 1..Len(canon) THEN block_logs(i, canon[next.number].hash) ELSE <<>>

\* sync's eth::GetLogs for adapter i: blocks = LogBlocks::Hash(next.hash)
sync_logs(i) == block_logs(i, next.hash)

\* The finalized block and the logs of `next`, by its hash, arrive; the
\* window is finalized and the block is stored.
SyncUpdate ==
    /\ pc = "block"
    /\ \E fin \in {get_block(nodeFinalized).block} :
       \E f \in {Chain_finalize(chain, fin.number)} :
       \E blocks \in {[i \in DOMAIN adapters |->
                         [event |-> adapters[i].name,
                          block |-> [indexed |-> next.number,
                                     finalized |-> fin.number]]]} :
       \E logs \in {Flatten([i \in DOMAIN adapters |->
                              database_logs(i, sync_logs(i))])} :
       \E r \in {transaction(Database, update(Database, events, blocks, logs))} :
           /\ finalized' = fin
           /\ chain' = f.chain
           /\ IF f.ok
              THEN /\ dbTables' = r.tables
                   /\ dbBlocks' = r.blocks
                   /\ lastCall' = Call("update", r.ok, <<>>, blocks)
                   /\ covered' = IF r.ok
                                 THEN [i \in DOMAIN covered |-> covered[i] \cup {next.number}]
                                 ELSE covered
                   /\ pc' = IF r.ok THEN "sync" ELSE "failed"
              ELSE /\ pc' = "failed"
                   /\ lastCall' = Call("none", TRUE, <<>>, <<>>)
                   /\ UNCHANGED <<dbTables, dbBlocks, covered>>
    /\ UNCHANGED <<events, node, config, queries, next, crashes, calls>>

\* The process ends (a crash between transactions, or the exit after an
\* error) and is started again on the same database file.
Restart ==
    /\ crashes < MaxCrashes
    /\ pc # "start"
    /\ crashes' = crashes + 1
    /\ pc' = "start"
    /\ events' = <<>>
    /\ queries' = <<>>
    /\ next' = Genesis
    /\ finalized' = Genesis
    /\ chain' = Chain_new(0, Genesis.hash)
    /\ lastCall' = Call("none", TRUE, <<>>, <<>>)
    /\ UNCHANGED <<dbTables, dbBlocks, node, config, covered, calls>>

Next ==
    \/ Mine \/ Reorg \/ Finalize
    \/ InitPrepare \/ InitRecover \/ InitPage \/ InitUpdate
    \/ SyncIdle \/ SyncBlock \/ SyncUpdate
    \/ Restart

Spec == Init /\ [][Next]_vars

\* The steps of Indexer::run: init, then the loop over sync.
Indexer_run ==
    \/ InitPrepare \/ InitRecover \/ InitPage \/ InitUpdate
    \/ SyncIdle \/ SyncBlock \/ SyncUpdate

\* run has nothing to do: it has returned an error, or it sleeps between two
\* ticks that find no block at chain.next().
Indexer_halted ==
    \/ pc = "failed"
    \/ /\ pc = "sync"
       /\ ~get_block(Chain_next(chain)).some
       /\ lastCall.op = "sleep"

\* Indexer::run under fair scheduling: the task of run is polled as long as
\* it has a step to take; the node and a crash are under no obligation.  This
\* is WF_vars(Indexer_run): for the steps that call the database its ENABLED
\* is written out, a step of run being possible exactly when run is not
\* halted.
LiveSpec ==
    /\ Spec
    /\ WF_vars(InitPage \/ SyncIdle)
    /\ ([]<>Indexer_halted \/ []<><<Indexer_run>>_vars)

----------------------------------------------------------------------------
(* The indexer on a node that breaks its finalized promise: the block the  *)
(* node reported as finalized is replaced by another one.                  *)

FaultInit ==
    /\ dbTables = <<>>
    /\ dbBlocks = <<>>
    /\ events = <<>>
    /\ lastCall = Call("none", TRUE, <<>>, <<>>)
    /\ canon = <<>>
    /\ forks = [n \in 1..MaxBlocks |-> 0]
    /\ nodeFinalized = 0
    /\ adapters \in {c \in Configs : \A i \in DOMAIN c : c[i].start = 0}
    /\ page_size = 1
    /\ pc = "start"
    /\ finalized = Genesis
    /\ queries = <<>>
    /\ next = Genesis
    /\ chain = Chain_new(0, Genesis.hash)
    /\ covered = [i \in DOMAIN adapters |-> {}]
    /\ crashes = 0
    /\ calls = 0

\* The node replaces its finalized block and drops the blocks above it.
Betray ==
    /\ Minted < MaxBlocks
    /\ nodeFinalized >= 1
    /\ canon' = Append(SubSeq(canon, 1, nodeFinalized - 1),
                       [number |-> nodeFinalized,
                        hash |-> <<nodeFinalized, forks[nodeFinalized]>>,
                        parent_hash |-> get_block(nodeFinalized - 1).block.hash])
    /\ forks' = [forks EXCEPT ![nodeFinalized] = @ + 1]
    /\ UNCHANGED <<nodeFinalized, dbTables, dbBlocks, events, lastCall, config, pc,
                   finalized, queries, next, chain, covered, crashes, calls>>

FaultNext == Next \/ Betray

FaultSpec == FaultInit /\ [][FaultNext]_vars

----------------------------------------------------------------------------
(* The storage on its own: a client calls the Database trait of one Sqlite *)
(* file with arguments of its choice, as database/sqlite/mod.rs's tests    *)
(* do.  The two event names are such that the array table of the first,    *)
(* declared with its array signature, has the name of the second.          *)

MaxCalls == 2       \* update and remove calls of the client
MaxNumber == 2      \* the largest block number the client passes

DbNames == {<<"e">>, <<"e", "_", "b", "_", "0">>}

DbSignature(name) ==
    IF name = <<"e">> THEN <<[name |-> <<"b">>, kind |-> Bools]>>
    ELSE <<[name |-> <<>>, kind |-> Leaf("bool")], [name |-> <<>>, kind |-> Leaf("bool")]>>

\* sequences over S of length lo..hi
SeqsOf(S, lo, hi) == UNION {[1..n -> S] : n \in lo..hi}

\* one watermark for each name, the second with finalized above indexed as
\* in tests::event_blocks
DbEventBlocks ==
    {[event |-> n, block |-> IF n = <<"e">> THEN [indexed |-> 2, finalized |-> 1]
                             ELSE [indexed |-> 1, finalized |-> 2]] : n \in DbNames}

DbLogs ==
    {[event |-> n, block_number |-> b, log_index |-> 0, transaction_index |-> 0,
      address |-> 0,
      fields |-> [j \in DOMAIN DbSignature(n) |->
                    sample_value(DbSignature(n)[j].kind, b + j)]] :
        n \in DbNames, b \in 1..MaxNumber}

DbUncles == {[event |-> n, number |-> b] : n \in DbNames, b \in 0..MaxNumber}

DbInit ==
    /\ dbTables = <<>>
    /\ dbBlocks = <<>>
    /\ events = <<>>
    /\ lastCall = Call("none", TRUE, <<>>, <<>>)
    /\ canon = <<>>
    /\ forks = [n \in 1..MaxBlocks |-> 0]
    /\ nodeFinalized = 0
    /\ adapters = <<>>
    /\ page_size = 1
    /\ pc = "client"
    /\ finalized = Genesis
    /\ queries = <<>>
    /\ next = Genesis
    /\ chain = Chain_new(0, Genesis.hash)
    /\ covered = <<>>
    /\ crashes = 0
    /\ calls = 0

\* What the client's calls leave alone.
DbFrame == UNCHANGED <<node, config, pc, finalized, queries, next, chain, covered, crashes>>

\* Database::prepare_event, with the signature of the name or, for the
\* second name, with none
DbPrepare ==
    /\ \E name \in DbNames :
       \E signature \in {DbSignature(name)} \cup (IF name = <<"e">> THEN {} ELSE {<<>>}) :
       \E r \in {prepare_event(Database, events, name, signature)} :
       \E t \in {transaction(Database, r)} :
           /\ dbTables' = t.tables
           /\ dbBlocks' = t.blocks
           /\ events' = r.events
           /\ lastCall' = Call("prepare_event", r.ok, <<>>, <<>>)
    /\ UNCHANGED calls
    /\ DbFrame

\* Database::update, with two event blocks and logs in all
DbUpdate ==
    /\ calls < MaxCalls
    /\ calls' = calls + 1
    /\ \E blocks \in SeqsOf(DbEventBlocks, 0, 2) :
       \E logs \in SeqsOf(DbLogs, 0, 2 - Len(blocks)) :
       \E r \in {transaction(Database, update(Database, events, blocks, logs))} :
           /\ dbTables' = r.tables
           /\ dbBlocks' = r.blocks
           /\ lastCall' = Call("update", r.ok, <<>>, blocks)
    /\ UNCHANGED events
    /\ DbFrame

\* Database::remove
DbRemove ==
    /\ calls < MaxCalls
    /\ calls' = calls + 1
    /\ \E uncles \in SeqsOf(DbUncles, 1, 2) :
       \E r \in {transaction(Database, remove(Database, events, uncles))} :
           /\ dbTables' = r.tables
           /\ dbBlocks' = r.blocks
           /\ lastCall' = Call("remove", r.ok, uncles, <<>>)
    /\ UNCHANGED events
    /\ DbFrame

DbNext == DbPrepare \/ DbUpdate \/ DbRemove

DbSpec == DbInit /\ [][DbNext]_vars

\* Database::prepare_event when transaction.commit() returns Err: the
\* transaction is dropped, which rolls it back, after inner.prepare_event
\* has returned Ok.
DbPrepareAbort ==
    /\ \E name \in DbNames :
       \E signature \in {DbSignature(name)} \cup (IF name = <<"e">> THEN {} ELSE {<<>>}) :
       \E r \in {prepare_event(Database, events, name, signature)} :
           /\ r.ok
           /\ events' = r.events
           /\ lastCall' = Call("prepare_event", FALSE, <<>>, <<>>)
    /\ UNCHANGED <<dbTables, dbBlocks, calls>>
    /\ DbFrame

\* The client of the backend on a connection whose commit may fail.
CommitSpec == DbInit /\ [][DbNext \/ DbPrepareAbort]_vars

----------------------------------------------------------------------------
(* The chain window on its own: a caller appends and finalizes with        *)
(* arguments of its choice, as indexer/chain.rs's tests do.                *)

MaxFork == 1        \* the forks of a height the caller knows hashes of

ChainHashes == {<<n, f>> : n \in 0..1, f \in 0..MaxFork}

\* What a step records of the call of Chain it made; res is "Ok", "Reorg"
\* or "Err".
ChainCall(op, res, hash, parent, number, old) ==
    [op |-> op, res |-> res, hash |-> hash, parent |-> parent, number |-> number,
     old |-> old]

ChainInit ==
    /\ dbTables = <<>>
    /\ dbBlocks = <<>>
    /\ events = <<>>
    /\ lastCall = ChainCall("new", "Ok", Genesis.hash, Genesis.hash, 0, 0)
    /\ canon = <<>>
    /\ forks = [n \in 1..MaxBlocks |-> 0]
    /\ nodeFinalized = 0
    /\ adapters = <<>>
    /\ page_size = 1
    /\ pc = "caller"
    /\ finalized = Genesis
    /\ queries = <<>>
    /\ next = Genesis
    /\ chain = Chain_new(0, Genesis.hash)
    /\ covered = <<>>
    /\ crashes = 0
    /\ calls = 0

ChainFrame ==
    UNCHANGED <<dbTables, dbBlocks, events, node, config, pc, finalized, queries, next,
                covered, crashes, calls>>

\* Chain::append
ChainAppend ==
    /\ Chain_next(chain) <= MaxBlocks
    /\ \E hash \in ChainHashes, parent \in ChainHashes :
       \E a \in {Chain_append(chain, hash, parent)} :
           /\ chain' = a.chain
           /\ lastCall' = ChainCall("append", a.res, hash, parent, 0, 0)
    /\ ChainFrame

\* Chain::finalize
ChainFinalize ==
    /\ \E number \in 0..(MaxBlocks + 1) :
       \E f \in {Chain_finalize(chain, number)} :
           /\ chain' = f.chain
           /\ lastCall' = ChainCall("finalize", IF f.ok THEN "Ok" ELSE "Err",
                                    Genesis.hash, Genesis.hash,
                                    number, f.old)
    /\ ChainFrame

ChainNext == ChainAppend \/ ChainFinalize

ChainSpec == ChainInit /\ [][ChainNext]_vars

----------------------------------------------------------------------------
(* One database file used by successive backend instances: a client that   *)
(* opens the file anew (Sqlite::open, SqliteInner::new: the events map is  *)
(* empty, the tables and watermarks are the file's) and calls              *)
(* prepare_event, update and remove with well-formed and ill-formed        *)
(* arguments.  lastCall holds the last call with all its arguments.        *)

RunNames == {<<"e">>, <<"f">>}

\* The descriptors the client declares: e(bool a), e(address a) and e() for
\* the first name, f(bool a) for the second.
RunDescriptor(t) == <<[name |-> <<"a">>, kind |-> Leaf(t)]>>

RunDescriptors(name) ==
    IF name = <<"e">> THEN {RunDescriptor("bool"), RunDescriptor("address"), <<>>}
    ELSE {RunDescriptor("bool")}

RunEventBlocks ==
    {[event |-> <<"e">>, block |-> [indexed |-> 2, finalized |-> 1]],
     [event |-> <<"e">>, block |-> [indexed |-> 1, finalized |-> 2]],
     [event |-> <<"f">>, block |-> [indexed |-> 1, finalized |-> 1]]}

\* The logs of block 1: of each name, with the fields of each of its
\* descriptors.
RunLogs ==
    UNION {{[event |-> n, block_number |-> 1, log_index |-> 0,
             transaction_index |-> 0, address |-> 0,
             fields |-> [j \in DOMAIN d |-> sample_value(d[j].kind, 1)]] :
               d \in RunDescriptors(n)} : n \in RunNames}

RunUncles ==
    {[event |-> <<"e">>, number |-> b] : b \in 0..2}
    \cup {[event |-> <<"f">>, number |-> 1]}

RunCall(op, ok, name, event, blocks, logs, uncles) ==
    [op |-> op, ok |-> ok, name |-> name, event |-> event, blocks |-> blocks,
     logs |-> logs, uncles |-> uncles]

RunInit ==
    /\ dbTables = <<>>
    /\ dbBlocks = <<>>
    /\ events = <<>>
    /\ lastCall = RunCall("open", TRUE, <<>>, <<>>, <<>>, <<>>, <<>>)
    /\ canon = <<>>
    /\ forks = [n \in 1..MaxBlocks |-> 0]
    /\ nodeFinalized = 0
    /\ adapters = <<>>
    /\ page_size = 1
    /\ pc = "runs"
    /\ finalized = Genesis
    /\ queries = <<>>
    /\ next = Genesis
    /\ chain = Chain_new(0, Genesis.hash)
    /\ covered = <<>>
    /\ crashes = 0
    /\ calls = 0

RunFrame ==
    UNCHANGED <<node, config, pc, finalized, queries, next, chain, covered, calls>>

\* Sqlite::open on the file the former instance used
RunOpen ==
    /\ crashes < MaxCrashes
    /\ crashes' = crashes + 1
    /\ events' = <<>>
    /\ lastCall' = RunCall("open", TRUE, <<>>, <<>>, <<>>, <<>>, <<>>)
    /\ UNCHANGED <<dbTables, dbBlocks>>
    /\ RunFrame

\* Database::prepare_event
RunPrepare ==
    /\ \E name \in RunNames :
       \E event \in RunDescriptors(name) :
       \E r \in {prepare_event(Database, events, name, event)} :
       \E t \in {transaction(Database, r)} :
           /\ dbTables' = t.tables
           /\ dbBlocks' = t.blocks
           /\ events' = r.events
           /\ lastCall' = RunCall("prepare_event", r.ok, name, event, <<>>, <<>>, <<>>)
    /\ UNCHANGED crashes
    /\ RunFrame

\* Database::update, with two event blocks or an event block and a log
RunUpdate ==
    /\ \E blocks \in SeqsOf(RunEventBlocks, 0, 2) :
       \E logs \in SeqsOf(RunLogs, 0, IF Len(blocks) = 2 THEN 0 ELSE 1) :
       \E r \in {transaction(Database, update(Database, events, blocks, logs))} :
           /\ dbTables' = r.tables
           /\ dbBlocks' = r.blocks
           /\ lastCall' = RunCall("update", r.ok, <<>>, <<>>, blocks, logs, <<>>)
    /\ UNCHANGED <<events, crashes>>
    /\ RunFrame

\* Database::remove, of one uncle
RunRemove ==
    /\ \E uncles \in SeqsOf(RunUncles, 1, 1) :
       \E r \in {transaction(Database, remove(Database, events, uncles))} :
           /\ dbTables' = r.tables
           /\ dbBlocks' = r.blocks
           /\ lastCall' = RunCall("remove", r.ok, <<>>, <<>>, <<>>, <<>>, uncles)
    /\ UNCHANGED <<events, crashes>>
    /\ RunFrame

RunNext == RunOpen \/ RunPrepare \/ RunUpdate \/ RunRemove

RunSpec == RunInit /\ [][RunNext]_vars

----------------------------------------------------------------------------
(* sanitize_name on its own: it is applied to every string of up to MaxLen *)
(* characters of an alphabet with letters of both cases, the underscore, a *)
(* digit and a character that is not allowed.  lastCall holds the string,  *)
(* sanitize_name_'s answer and sanitize_name's.                            *)

MaxLen == 3         \* the longest string sanitized

SanChars == {"a", "s", "S", "_", "1", "-"}

SanCall(name, out, checked) == [op |-> "sanitize", name |-> name, out |-> out, checked |-> checked]

SanInit ==
    /\ dbTables = <<>>
    /\ dbBlocks = <<>>
    /\ events = <<>>
    /\ lastCall = SanCall(<<>>, sanitize_name_(<<>>), sanitize_name(<<>>))
    /\ canon = <<>>
    /\ forks = [n \in 1..MaxBlocks |-> 0]
    /\ nodeFinalized = 0
    /\ adapters = <<>>
    /\ page_size = 1
    /\ pc = "sanitize"
    /\ finalized = Genesis
    /\ queries = <<>>
    /\ next = Genesis
    /\ chain = Chain_new(0, Genesis.hash)
    /\ covered = <<>>
    /\ crashes = 0
    /\ calls = 0

Sanitize ==
    /\ \E name \in SeqsOf(SanChars, 0, MaxLen) :
          lastCall' = SanCall(name, sanitize_name_(name), sanitize_name(name))
    /\ UNCHANGED <<dbTables, dbBlocks, events, node, config, pc, finalized, queries,
                   next, chain, covered, crashes, calls>>

SanSpec == SanInit /\ [][Sanitize]_vars

----------------------------------------------------------------------------
(* A client of one in-memory database, as the tests of database/sqlite     *)
(* drive it: Sqlite::new_for_test, one prepare_event, one update with one  *)
(* log.  Names and descriptors cover what the planner rejects and what it  *)
(* accepts; the fields of the log are every value of the descriptor with   *)
(* arrays of up to MaxElems elements, and vectors of another descriptor.   *)

MaxElems == 2       \* the longest dynamic array of a log

PlanNames == {<<"e">>, <<"E">>, <<"e", "1">>, <<"_", "e">>, <<>>, <<"e", "-">>,
              <<"a", "s">>, <<"A", "s">>}

\* solabi: the kinds one level of nesting above the kinds K; a tuple has a
\* second, anonymous field of another leaf type
PlanWrap(K) ==
    {[k |-> "array", of |-> x] : x \in K}
    \cup {[k |-> "fixed", n |-> 2, of |-> x] : x \in K}
    \cup {[k |-> "tuple",
           fields |-> <<[name |-> <<"x">>, kind |-> x],
                        [name |-> <<>>, kind |-> Leaf("address")]>>] : x \in K}

\* solabi: bool and the kinds of up to three levels of nesting over it
PlanKinds ==
    {Leaf("bool")} \cup PlanWrap({Leaf("bool")} \cup PlanWrap({Leaf("bool")}
                                  \cup PlanWrap({Leaf("bool")})))

\* solabi: EventDescriptor.inputs: one named field, no field, or two sibling arrays
PlanEvents ==
    {<<[name |-> <<"a">>, kind |-> x]>> : x \in PlanKinds}
    \cup {<<>>,
          <<[name |-> <<"a">>, kind |-> [k |-> "array", of |-> Leaf("bool")]],
            [name |-> <<>>, kind |-> [k |-> "array", of |-> Leaf("address")]]>>}

\* the sequences whose i-th element is drawn from the i-th set
RECURSIVE PlanProduct(_)
PlanProduct(sets) ==
    IF sets = <<>> THEN {<<>>}
    ELSE {<<h>> \o t : h \in Head(sets), t \in PlanProduct(Tail(sets))}

\* solabi: the values of a kind; the payload of a leaf is its path in the log
RECURSIVE PlanValues(_, _)
PlanValues(kind, path) ==
    CASE kind.k = "tuple" ->
            {[k |-> "tuple", vs |-> vs] :
                vs \in PlanProduct([i \in DOMAIN kind.fields |->
                                      PlanValues(kind.fields[i].kind, 10 * path + i)])}
      [] kind.k = "fixed" ->
            {[k |-> "fixed", of |-> field_kind(kind.of), vs |-> vs] :
                vs \in PlanProduct([i \in 1..kind.n |-> PlanValues(kind.of, 10 * path + i)])}
      [] kind.k = "array" ->
            UNION {{[k |-> "array", of |-> field_kind(kind.of), vs |-> vs] :
                      vs \in PlanProduct([i \in 1..len |->
                                            PlanValues(kind.of, 10 * path + i)])} :
                   len \in 0..MaxElems}
      [] OTHER -> {[k |-> "leaf", t |-> kind.t, v |-> path]}

\* Log.fields: the value vectors of a descriptor
PlanFields(event) ==
    PlanProduct([i \in DOMAIN event |-> PlanValues(event[i].kind, i)])

\* database::Log: the one log of the database, as in tests::full_leaf_types
PlanLog(name, fields) ==
    [event |-> name, block_number |-> 1, log_index |-> 2, transaction_index |-> 3,
     address |-> 4, fields |-> fields]

PlanCall(op, ok, name, event, fields) ==
    [op |-> op, ok |-> ok, name |-> name, event |-> event, fields |-> fields]

PlanInit ==
    /\ dbTables = <<>>
    /\ dbBlocks = <<>>
    /\ events = <<>>
    /\ lastCall = PlanCall("open", TRUE, <<>>, <<>>, <<>>)
    /\ canon = <<>>
    /\ forks = [n \in 1..MaxBlocks |-> 0]
    /\ nodeFinalized = 0
    /\ adapters = <<>>
    /\ page_size = 1
    /\ pc = "plans"
    /\ finalized = Genesis
    /\ queries = <<>>
    /\ next = Genesis
    /\ chain = Chain_new(0, Genesis.hash)
    /\ covered = <<>>
    /\ crashes = 0
    /\ calls = 0

PlanFrame ==
    UNCHANGED <<node, config, pc, finalized, queries, next, chain, covered, crashes,
                calls>>

\* Sqlite::new_for_test: a database in memory replaces the one in use
PlanOpen ==
    /\ lastCall.op # "open"
    /\ dbTables' = <<>>
    /\ dbBlocks' = <<>>
    /\ events' = <<>>
    /\ lastCall' = PlanCall("open", TRUE, <<>>, <<>>, <<>>)
    /\ PlanFrame

\* Database::prepare_event, of the first event of the database
PlanPrepare ==
    /\ events = <<>>
    /\ \E name \in PlanNames :
       \E event \in PlanEvents :
       \E r \in {prepare_event(Database, events, name, event)} :
       \E t \in {transaction(Database, r)} :
           /\ dbTables' = t.tables
           /\ dbBlocks' = t.blocks
           /\ events' = r.events
           /\ lastCall' = PlanCall("prepare_event", r.ok, name, event, <<>>)
    /\ PlanFrame

\* Database::update with no event block and the first log of the database
PlanUpdate ==
    /\ \A n \in DOMAIN dbTables : dbTables[n].rows = {}
    /\ \E name \in DOMAIN events :
       \E fields \in PlanFields(events[name].descriptor)
                     \cup PlanFields(<<[name |-> <<"a">>, kind |-> Leaf("bool")]>>) :
       \E log \in {PlanLog(name, fields)} :
       \E r \in {update(Database, events, <<>>, <<log>>)} :
       \E t \in {transaction(Database, r)} :
           /\ dbTables' = t.tables
           /\ dbBlocks' = t.blocks
           /\ lastCall' = PlanCall("update", r.ok, name, events[name].descriptor, fields)
    /\ UNCHANGED events
    /\ PlanFrame

PlanNext == PlanOpen \/ PlanPrepare \/ PlanUpdate

PlanSpec == PlanInit /\ [][PlanNext]_vars

----------------------------------------------------------------------------
(* Both backends on an empty database: prepare_event of an event of one or *)
(* two leaves, of every leaf kind of solabi.                               *)

\* solabi: the leaf ValueKinds
LeafKinds == {"int", "uint", "address", "bool", "fixed_bytes", "function", "bytes",
              "string"}

\* EventDescriptor.inputs: a leaf a, or leaves a and b
LeafEvents ==
    {<<[name |-> <<"a">>, kind |-> Leaf(t)]>> : t \in LeafKinds}
    \cup {<<[name |-> <<"a">>, kind |-> Leaf(t)], [name |-> <<"b">>, kind |-> Leaf(u)]>> :
            t \in LeafKinds, u \in LeafKinds}

LeafInit ==
    /\ dbTables = <<>>
    /\ dbBlocks = <<>>
    /\ events = <<>>
    /\ lastCall = [op |-> "open", backend |-> "sqlite", res |-> "Ok", name |-> <<>>,
                   event |-> <<>>]
    /\ canon = <<>>
    /\ forks = [n \in 1..MaxBlocks |-> 0]
    /\ nodeFinalized = 0
    /\ adapters = <<>>
    /\ page_size = 1
    /\ pc = "leaves"
    /\ finalized = Genesis
    /\ queries = <<>>
    /\ next = Genesis
    /\ chain = Chain_new(0, Genesis.hash)
    /\ covered = <<>>
    /\ crashes = 0
    /\ calls = 0

\* Database::prepare_event of the event "e" on a new, empty database of
\* either backend
LeafPrepare ==
    /\ \E backend \in {"sqlite", "postgres"} :
       \E event \in LeafEvents :
       \E r \in {IF backend = "sqlite"
                 THEN [res |-> IF prepare_event([tables |-> <<>>, blocks |-> <<>>], <<>>,
                                                <<"e">>, event).ok
                               THEN "Ok" ELSE "Err"]
                      @@ prepare_event([tables |-> <<>>, blocks |-> <<>>], <<>>,
                                       <<"e">>, event)
                 ELSE [ok |-> TRUE]
                      @@ Postgres_prepare_event([tables |-> <<>>, blocks |-> <<>>], <<>>,
                                                <<"e">>, event)} :
           /\ dbTables' = r.tables
           /\ dbBlocks' = r.blocks
           /\ events' = r.events
           /\ lastCall' = [op |-> "prepare_event", backend |-> backend, res |-> r.res,
                           name |-> <<"e">>, event |-> event]
    /\ UNCHANGED <<node, config, pc, finalized, queries, next, chain, covered, crashes,
                   calls>>

LeafSpec == LeafInit /\ [][LeafPrepare]_vars

----------------------------------------------------------------------------
(* Properties *)

\* The tables of a prepared event: its primary table and its array tables.
EventTables(name) ==
    {events[name].remove_statements[k] : k \in DOMAIN events[name].remove_statements}

Max(S) == CHOOSE x \in S : \A y \in S : y <= x

\* C1: for every event, the finalized watermark is at most the indexed
\* watermark, in every state the indexer's updates and removes lead to.
C1_FinalizedAtMostIndexed ==
    \A e \in DOMAIN dbBlocks : dbBlocks[e].finalized <= dbBlocks[e].indexed

\* C2: every row of a primary or array table of an event has a block number
\* that is at most the event's indexed watermark.
C2_RowsAtMostIndexed ==
    \A e \in DOMAIN events :
        \A t \in EventTables(e) :
            \A row \in dbTables[t].rows : row[1] <= dbBlocks[e].indexed

\* C3: a storage operation that returns an error has changed no table and
\* no watermark, and an update that succeeds has written every watermark it
\* was given (the last one given for an event).
C3_AllOrNothing ==
    [][/\ (lastCall'.op \in {"prepare_event", "update", "remove"} /\ ~lastCall'.ok)
            => (dbTables' = dbTables /\ dbBlocks' = dbBlocks)
       /\ (lastCall'.op = "update" /\ lastCall'.ok)
            => \A k \in DOMAIN lastCall'.blocks :
                 (\A j \in DOMAIN lastCall'.blocks :
                     j > k => lastCall'.blocks[j].event # lastCall'.blocks[k].event)
                 => dbBlocks'[lastCall'.blocks[k].event] = lastCall'.blocks[k].block
      ]_vars

\* An update failed after its first watermark write had changed the
\* watermark inside the transaction.
C3_Witness ==
    /\ lastCall.op = "update"
    /\ ~lastCall.ok
    /\ lastCall.blocks # <<>>
    /\ lastCall.blocks[1].event \in DOMAIN events
    /\ dbBlocks[lastCall.blocks[1].event] # lastCall.blocks[1].block

\* C4: after a successful remove({E, n}), n >= 1, each table of E holds
\* exactly its former rows below block n, and E's indexed watermark is n - 1.
C4_RemoveRemoves ==
    [][(lastCall'.op = "remove" /\ lastCall'.ok /\ Len(lastCall'.uncles) = 1)
         => LET uncle == lastCall'.uncles[1]
            IN  /\ uncle.number >= 1
                /\ \A t \in EventTables(uncle.event) :
                      dbTables'[t].rows
                        = {row \in dbTables[t].rows : row[1] < uncle.number}
                /\ dbBlocks'[uncle.event].indexed = uncle.number - 1
      ]_vars

\* A remove({E, 2}) has succeeded and left a row of block 1 in E's primary
\* table.
C4_Witness ==
    /\ lastCall.op = "remove"
    /\ lastCall.ok
    /\ Len(lastCall.uncles) = 1
    /\ lastCall.uncles[1].number = 2
    /\ \E row \in dbTables[lastCall.uncles[1].event].rows : row[1] = 1

\* C5: a successful remove({E, n}) leaves E's finalized watermark, and the
\* rows and the watermark of every other prepared event, as they were.
C5_RemoveFrame ==
    [][(lastCall'.op = "remove" /\ lastCall'.ok /\ Len(lastCall'.uncles) = 1)
         => LET uncle == lastCall'.uncles[1]
            IN  /\ dbBlocks'[uncle.event].finalized = dbBlocks[uncle.event].finalized
                /\ \A f \in DOMAIN events \ {uncle.event} :
                      /\ dbBlocks'[f] = dbBlocks[f]
                      /\ \A t \in EventTables(f) : dbTables'[t].rows = dbTables[t].rows
      ]_vars

\* C6: when init returns the finalized block F, the logs of every block
\* from max(start, 1) to F have been fetched and committed for every adapter.
C6_InitIndexesUntilFinalized ==
    [][(pc = "boot" /\ pc' = "sync")
         => \A i \in DOMAIN adapters :
              \A b \in Max({adapters[i].start, 1})..finalized'.number :
                 b \in covered'[i]
      ]_vars

\* The hash the chain window holds for height h, chain.finalized < h < next()
WindowHash(h) == chain.hashes[Chain_next(chain) - h]

\* The heights of the window whose block has been stored: all above the
\* finalized block, but for the head between its append and its update.
WindowStored ==
    (chain.finalized + 1)..(Chain_next(chain) - (IF pc = "block" THEN 2 ELSE 1))

\* C7: between the ticks of sync, for every height of the chain window above
\* its finalized block, the rows stored at that height are the decoded logs
\* of the block whose hash the window holds there: each such log has its
\* row in the primary table, and every row at that height is of that block.
C7_RowsOfWindowBlocks ==
    pc \in {"sync", "block"}
    => \A h \in WindowStored :
          /\ \A i \in DOMAIN adapters :
                \A k \in DOMAIN database_logs(i, block_logs(i, WindowHash(h))) :
                   \E row \in dbTables[adapters[i].name].rows :
                      /\ row[1] = h
                      /\ row[2] = database_logs(i, block_logs(i, WindowHash(h)))[k].log_index
          /\ \A t \in DOMAIN dbTables :
                \A row \in dbTables[t].rows :
                   row[1] = h => <<row[1], row[3]>> = WindowHash(h)

\* The window holds a block that is no longer the canonical block of its
\* height, and a log of that block is stored.
C7_Witness ==
    /\ pc = "sync"
    /\ \E h \in WindowStored :
          /\ h <= Len(canon)
          /\ canon[h].hash # WindowHash(h)
          /\ \E t \in DOMAIN dbTables : \E row \in dbTables[t].rows : row[1] = h

\* C8: when an update commits block N + 1 for an adapter, N >= max(start, 1),
\* block N is covered for that adapter by an earlier update or by this one.
C8_NoGaps ==
    [][\A i \in DOMAIN adapters :
          \A b \in covered'[i] \ covered[i] :
             b - 1 >= Max({adapters[i].start, 1}) => b - 1 \in covered'[i]
      ]_vars

\* C9: for no adapter a log query is issued for, or a row stored with, a
\* block number below the adapter's start.
C9_NothingBelowStart ==
    \A i \in DOMAIN adapters :
        /\ \A b \in covered[i] : b >= adapters[i].start
        /\ adapters[i].name \in DOMAIN dbTables
             => \A row \in dbTables[adapters[i].name].rows : row[1] >= adapters[i].start

\* C10: the step of init that recovers from a crash leaves every adapter
\* that had indexed > finalized with indexed = finalized and no row above
\* finalized, leaves the rows and watermark of the others unchanged, and
\* calls remove only if some adapter had indexed > finalized.
C10_Recovery ==
    [][(pc = "recover" /\ pc' = "boot")
         => /\ \A i \in DOMAIN adapters :
                 LET e == adapters[i].name
                 IN  IF dbBlocks[e].indexed > dbBlocks[e].finalized
                     THEN /\ dbBlocks'[e] = [indexed |-> dbBlocks[e].finalized,
                                             finalized |-> dbBlocks[e].finalized]
                          /\ \A t \in EventTables(e) :
                                \A row \in dbTables'[t].rows :
                                   row[1] <= dbBlocks[e].finalized
                     ELSE /\ dbBlocks'[e] = dbBlocks[e]
                          /\ \A t \in EventTables(e) :
                                dbTables'[t].rows = dbTables[t].rows
            /\ (\A i \in DOMAIN adapters :
                  dbBlocks[adapters[i].name].indexed <= dbBlocks[adapters[i].name].finalized)
                 => lastCall'.op # "remove"
      ]_vars

\* After a restart the recovery has removed the unfinalized blocks of an
\* adapter, whose blocks up to its finalized one stay covered.
C10_Witness ==
    /\ pc = "boot"
    /\ crashes > 0
    /\ lastCall.op = "remove"
    /\ lastCall.ok
    /\ \E i \in DOMAIN adapters :
          /\ dbBlocks[adapters[i].name].finalized >= 1
          /\ dbBlocks[adapters[i].name].indexed = dbBlocks[adapters[i].name].finalized
          /\ dbBlocks[adapters[i].name].indexed \in covered[i]

\* C11: the chain window always holds at least one hash and next() is
\* finalized + len; right after an append that returns Ok the front hash is
\* the appended one and next() has grown by one.
C11_WindowInvariant ==
    /\ Len(chain.hashes) >= 1
    /\ [][/\ Len(chain'.hashes) >= 1
          /\ Chain_next(chain') = chain'.finalized + Len(chain'.hashes)
          /\ (lastCall'.op = "append" /\ lastCall'.res = "Ok")
               => /\ chain'.hashes[1] = lastCall'.hash
                  /\ Chain_next(chain') = Chain_next(chain) + 1
         ]_vars

\* An append has returned Ok on a window of several hashes.
C11_Witness ==
    /\ lastCall.op = "append"
    /\ lastCall.res = "Ok"
    /\ Len(chain.hashes) >= 3
    /\ chain.finalized >= 1

\* C12: append returns Ok exactly if parent is the front hash; with another
\* parent and several hashes it returns Reorg, pops the front only and does
\* not push the hash; with another parent and one hash it fails and leaves
\* the window as it was.
C12_Append ==
    [][lastCall'.op = "append"
         => /\ (lastCall'.res = "Ok") <=> (lastCall'.parent = chain.hashes[1])
            /\ (lastCall'.parent # chain.hashes[1] /\ Len(chain.hashes) > 1)
                 => /\ lastCall'.res = "Reorg"
                    /\ chain'.hashes = Tail(chain.hashes)
                    /\ Chain_next(chain') = Chain_next(chain) - 1
                    /\ chain'.finalized = chain.finalized
            /\ (lastCall'.parent # chain.hashes[1] /\ Len(chain.hashes) = 1)
                 => /\ lastCall'.res = "Err"
                    /\ chain' = chain
      ]_vars

\* An append has returned Reorg and left a window of several hashes.
C12_Witness ==
    /\ lastCall.op = "append"
    /\ lastCall.res = "Reorg"
    /\ Len(chain.hashes) >= 2

\* C13: finalize(n) succeeds exactly if finalized <= n < next(); it then
\* returns the former finalized number, sets finalized to n, keeps the
\* next() - n hashes of the heights from n on and leaves next() and the front
\* as they were; a failed finalize leaves the window as it was; finalized
\* never decreases.
C13_Finalize ==
    [][/\ chain'.finalized >= chain.finalized
       /\ lastCall'.op = "finalize"
            => /\ (lastCall'.res = "Ok")
                 <=> (chain.finalized <= lastCall'.number
                      /\ lastCall'.number < Chain_next(chain))
               /\ (lastCall'.res = "Ok")
                    => /\ lastCall'.old = chain.finalized
                       /\ chain'.finalized = lastCall'.number
                       /\ Len(chain'.hashes) = Chain_next(chain) - lastCall'.number
                       /\ Chain_next(chain') = Chain_next(chain)
                       /\ \A k \in DOMAIN chain'.hashes :
                             chain'.hashes[k] = chain.hashes[k]
               /\ (lastCall'.res = "Err") => chain' = chain
      ]_vars

\* A finalize has dropped hashes from the back of the window and kept
\* several.
C13_Witness ==
    /\ lastCall.op = "finalize"
    /\ lastCall.res = "Ok"
    /\ lastCall.number > lastCall.old + 1
    /\ Len(chain.hashes) >= 2

\* C14: on one backend instance, prepare_event of a name that the instance
\* has prepared succeeds exactly if the descriptor is the one it was prepared
\* with, and either way changes no table, row, watermark or cached statement.
C14_PrepareAgain ==
    [][(lastCall'.op = "prepare_event" /\ lastCall'.name \in DOMAIN events)
         => /\ lastCall'.ok <=> (lastCall'.event = events[lastCall'.name].descriptor)
            /\ dbTables' = dbTables
            /\ dbBlocks' = dbBlocks
            /\ events' = events
      ]_vars

\* A prepare_event with another descriptor than the one the instance holds
\* for the name has failed, on a table that holds a row.
C14_Witness ==
    /\ lastCall.op = "prepare_event"
    /\ ~lastCall.ok
    /\ lastCall.name \in DOMAIN events
    /\ events[lastCall.name].descriptor # lastCall.event
    /\ dbTables[lastCall.name].rows # {}

\* The tables prepare_event's CREATE TABLE statements describe for the
\* descriptor, wherever the database holds a table of that name, are the
\* tables it holds: same column types, same primary key.
TablesFit(tables, name, event) ==
    \E planned \in {event_to_tables(name, event)} :
       /\ planned.ok
       /\ \E made \in {create_tables(<<>>, <<planned.primary>> \o planned.dynamic_arrays, 1)} :
             \A t \in DOMAIN made \cap DOMAIN tables :
                /\ made[t].types = tables[t].types
                /\ made[t].key = tables[t].key

\* C15: prepare_event fails whenever the database holds a table for the name
\* that was made for an incompatible descriptor, by this instance or by an
\* earlier one.
C15_IncompatibleRejected ==
    [][(/\ lastCall'.op = "prepare_event"
        /\ lastCall'.name \in DOMAIN dbTables
        /\ ~TablesFit(dbTables, lastCall'.name, lastCall'.event))
         => ~lastCall'.ok
      ]_vars

\* C16: a successful prepare_event of a name that has no watermark row sets
\* its watermark to (0, 0); a prepare_event of a name that has one, by the
\* instance that wrote it or by a later one, leaves the row as it is.
C16_PrepareWatermark ==
    [][lastCall'.op = "prepare_event"
         => /\ (lastCall'.ok /\ lastCall'.name \notin DOMAIN dbBlocks)
                 => /\ lastCall'.name \in DOMAIN dbBlocks'
                    /\ dbBlocks'[lastCall'.name] = [indexed |-> 0, finalized |-> 0]
            /\ lastCall'.name \in DOMAIN dbBlocks
                 => /\ lastCall'.name \in DOMAIN dbBlocks'
                    /\ dbBlocks'[lastCall'.name] = dbBlocks[lastCall'.name]
      ]_vars

\* After the file was opened anew, prepare_event has succeeded for the only
\* name the instance holds, and the name's watermark is the (2, 1) an update
\* wrote.
C16_Witness ==
    /\ crashes >= 1
    /\ lastCall.op = "prepare_event"
    /\ lastCall.ok
    /\ DOMAIN events = {lastCall.name}
    /\ dbBlocks[lastCall.name] = [indexed |-> 2, finalized |-> 1]

\* C17: event_block(E) returns the watermark written last: after a
\* successful update it is the block of the last EventBlock of E in the
\* update, or what it was if the update has none for E; after a successful
\* remove({E, n}) it is (n - 1, f) with f the finalized number it had.
C17_LastWatermark ==
    [][/\ (lastCall'.op = "update" /\ lastCall'.ok)
            => \A E \in RunNames :
                 \E at \in {{k \in DOMAIN lastCall'.blocks : lastCall'.blocks[k].event = E}} :
                    IF at # {}
                    THEN event_block(dbBlocks', E)
                           = [ok |-> TRUE, block |-> lastCall'.blocks[Max(at)].block]
                    ELSE event_block(dbBlocks', E) = event_block(dbBlocks, E)
       /\ (lastCall'.op = "remove" /\ lastCall'.ok)
            => \E uncle \in {lastCall'.uncles[1]} :
                 event_block(dbBlocks', uncle.event)
                   = [ok |-> TRUE,
                      block |-> [indexed |-> uncle.number - 1,
                                 finalized |-> event_block(dbBlocks, uncle.event).block.finalized]]
      ]_vars

\* An update with two different watermarks for one event has succeeded and
\* the event's watermark is the second.
C17_Witness ==
    /\ lastCall.op = "update"
    /\ lastCall.ok
    /\ Len(lastCall.blocks) = 2
    /\ lastCall.blocks[1].event = lastCall.blocks[2].event
    /\ lastCall.blocks[1].block # lastCall.blocks[2].block
    /\ event_block(dbBlocks, lastCall.blocks[2].event).block = lastCall.blocks[2].block

\* What store_event checks of a log against the prepared events: the event
\* is prepared, the log has as many fields as the descriptor has inputs, and
\* each field is of the descriptor's kind.
LogFits(evs, log) ==
    /\ log.event \in DOMAIN evs
    /\ Len(log.fields) = Len(evs[log.event].descriptor)
    /\ \A i \in DOMAIN log.fields :
          value_kind(log.fields[i]) = field_kind(evs[log.event].descriptor[i].kind)

\* C18: an update fails if an EventBlock or a Log names an event the
\* instance has not prepared, if an EventBlock's event has no watermark row,
\* or if a log's fields differ in number or kind from the descriptor's; a
\* remove fails if an uncle is at block 0 or names an unprepared event.  The
\* failed call leaves tables and watermarks as they were.
C18_Refused ==
    [][/\ (/\ lastCall'.op = "update"
           /\ \/ \E k \in DOMAIN lastCall'.blocks :
                    \/ lastCall'.blocks[k].event \notin DOMAIN events
                    \/ lastCall'.blocks[k].event \notin DOMAIN dbBlocks
              \/ \E k \in DOMAIN lastCall'.logs : ~LogFits(events, lastCall'.logs[k]))
            => (~lastCall'.ok /\ dbTables' = dbTables /\ dbBlocks' = dbBlocks)
       /\ (/\ lastCall'.op = "remove"
           /\ \E k \in DOMAIN lastCall'.uncles :
                  \/ lastCall'.uncles[k].number = 0
                  \/ lastCall'.uncles[k].event \notin DOMAIN events)
            => (~lastCall'.ok /\ dbTables' = dbTables /\ dbBlocks' = dbBlocks)
      ]_vars

\* An update has failed on a log whose field is not of the descriptor's kind,
\* after its event block, of a prepared event, had been written.
C18_Witness ==
    /\ lastCall.op = "update"
    /\ ~lastCall.ok
    /\ Len(lastCall.blocks) = 1
    /\ lastCall.blocks[1].event \in DOMAIN events
    /\ dbBlocks[lastCall.blocks[1].event] # lastCall.blocks[1].block
    /\ Len(lastCall.logs) = 1
    /\ lastCall.logs[1].event \in DOMAIN events
    /\ Len(lastCall.logs[1].fields) = Len(events[lastCall.logs[1].event].descriptor)
    /\ ~LogFits(events, lastCall.logs[1])

\* C19: no two rows of a prepared event's primary table have the same
\* (block_number, log_index), and no two rows of one of its array tables the
\* same (block_number, log_index, array_index).
C19_PrimaryKeyUnique ==
    \A name \in DOMAIN events :
       /\ \A r1 \in dbTables[name].rows : \A r2 \in dbTables[name].rows :
             (r1[1] = r2[1] /\ r1[2] = r2[2]) => r1 = r2
       /\ \A t \in EventTables(name) \ {name} :
             \A r1 \in dbTables[t].rows : \A r2 \in dbTables[t].rows :
                (r1[1] = r2[1] /\ r1[2] = r2[2] /\ r1[5] = r2[5]) => r1 = r2

\* C20: the two backends give every call the same outcome; in particular the
\* first prepare_event on an empty database, where both hold the same
\* (empty) state, succeeds on the server backend exactly if it succeeds on
\* the embedded one.
C20_SameOutcome ==
    [][(/\ lastCall'.op = "prepare_event"
        /\ dbTables = <<>> /\ dbBlocks = <<>> /\ events = <<>>)
         => \E p \in {Postgres_prepare_event([tables |-> <<>>, blocks |-> <<>>], <<>>,
                                              lastCall'.name, lastCall'.event)} :
               /\ (p.res = "Ok") <=> lastCall'.ok
               /\ DOMAIN p.tables = DOMAIN dbTables'
               /\ p.blocks = dbBlocks'
      ]_vars

\* A step of the indexer's sync that has fetched the block at chain.next():
\* the node and the process are as before, and the block exists.
SyncTick ==
    /\ pc = "sync"
    /\ UNCHANGED <<node, crashes>>
    /\ get_block(Chain_next(chain)).some

\* C21: when append returns Reorg for the block fetched at chain.next(), the
\* tick issues one remove with an Uncle for each adapter at chain.next() - 1,
\* fetches no logs and issues no update, and the next tick asks for the
\* block at chain.next() - 1.
C21_ReorgTick ==
    [][(/\ SyncTick
        /\ Chain_append(chain, get_block(Chain_next(chain)).block.hash,
                        get_block(Chain_next(chain)).block.parent_hash).res = "Reorg")
         => /\ lastCall'.op = "remove"
            /\ lastCall'.uncles
                 = [i \in DOMAIN adapters |->
                      [event |-> adapters[i].name, number |-> Chain_next(chain) - 1]]
            /\ pc' \in {"sync", "failed"}
            /\ lastCall'.ok => pc' = "sync"
            /\ Chain_next(chain') = Chain_next(chain) - 1
            /\ \A n \in DOMAIN dbBlocks : dbBlocks'[n].finalized = dbBlocks[n].finalized
      ]_vars

\* A live reorg has removed block 2 for both adapters and sync goes on.
C21_Witness ==
    /\ pc = "sync"
    /\ lastCall.op = "remove"
    /\ lastCall.ok
    /\ Len(lastCall.uncles) = Len(adapters)
    /\ lastCall.uncles[1].number = 2
    /\ Chain_next(chain) = 2

\* The answer to an eth_getLogs query holds a log that does not decode.
Undecoded(logs) == \E k \in DOMAIN logs : ~logs[k].data.ok

\* C22: a batch with a log that does not decode is still stored: the update
\* is issued and succeeds, every queried adapter's indexed watermark is the
\* block number (live) or the page end (bootstrap), and every log of the
\* batch that decodes has its row.
C22_DecodeFailureSkipped ==
    [][/\ (/\ pc = "block"
           /\ UNCHANGED <<node, crashes>>
           /\ Chain_finalize(chain, nodeFinalized).ok
           /\ \E i \in DOMAIN adapters : Undecoded(sync_logs(i)))
            => /\ lastCall'.op = "update"
               /\ lastCall'.ok
               /\ pc' = "sync"
               /\ \A i \in DOMAIN adapters :
                     /\ dbBlocks'[adapters[i].name].indexed = next.number
                     /\ \A k \in DOMAIN sync_logs(i) :
                           sync_logs(i)[k].data.ok
                             => \E row \in dbTables'[adapters[i].name].rows :
                                   /\ row[1] = sync_logs(i)[k].block_number
                                   /\ row[2] = sync_logs(i)[k].log_index
       /\ (/\ pc = "logs"
           /\ UNCHANGED <<node, crashes>>
           /\ \E q \in DOMAIN queries :
                 Undecoded(range_logs(queries[q].adapter, queries[q].from, queries[q].to)))
            => /\ lastCall'.op = "update"
               /\ lastCall'.ok
               /\ pc' = "boot"
               /\ \A q \in DOMAIN queries :
                    \E logs \in {range_logs(queries[q].adapter, queries[q].from,
                                            queries[q].to)} :
                     /\ dbBlocks'[adapters[queries[q].adapter].name].indexed
                          = queries[q].to
                     /\ \A k \in DOMAIN logs :
                           logs[k].data.ok
                             => \E row \in dbTables'[adapters[queries[q].adapter].name].rows :
                                   /\ row[1] = logs[k].block_number
                                   /\ row[2] = logs[k].log_index
      ]_vars

\* The block sync has just stored held a log that does not decode and one
\* that does, whose row is in the table.
C22_Witness ==
    /\ pc = "sync"
    /\ lastCall.op = "update"
    /\ lastCall.ok
    /\ \E i \in DOMAIN adapters :
          /\ Undecoded(sync_logs(i))
          /\ dbBlocks[adapters[i].name].indexed = next.number
          /\ \E row \in dbTables[adapters[i].name].rows : row[1] = next.number

\* C23: no remove the indexer issues has an Uncle at or below the chain
\* window's finalized number (live) or at or below the event's finalized
\* watermark (live and bootstrap); a tick that finds the fetched block's
\* parent to differ from the only hash of the window fails and leaves the
\* database as it was.
C23_FinalizedKept ==
    [][/\ (pc = "sync" /\ UNCHANGED <<node, crashes>> /\ lastCall'.op = "remove")
            => \A k \in DOMAIN lastCall'.uncles :
                  /\ lastCall'.uncles[k].number > chain.finalized
                  /\ lastCall'.uncles[k].number
                       > dbBlocks[lastCall'.uncles[k].event].finalized
       /\ (pc = "recover" /\ UNCHANGED <<node, crashes>> /\ lastCall'.op = "remove")
            => \A k \in DOMAIN lastCall'.uncles :
                  lastCall'.uncles[k].number
                    > dbBlocks[lastCall'.uncles[k].event].finalized
       /\ (/\ SyncTick
           /\ Len(chain.hashes) = 1
           /\ get_block(Chain_next(chain)).block.parent_hash # chain.hashes[1])
            => /\ pc' = "failed"
               /\ lastCall'.op = "none"
               /\ UNCHANGED <<dbTables, dbBlocks, chain>>
      ]_vars

\* The run has failed on a block whose parent is not the finalized block the
\* window holds, with rows in the database.
C23_Witness ==
    /\ pc = "failed"
    /\ Len(chain.hashes) = 1
    /\ next.number = chain.finalized + 1
    /\ next.parent_hash # chain.hashes[1]
    /\ \E t \in DOMAIN dbTables : dbTables[t].rows # {}

\* C24: sanitizing a sanitized string gives the same string, so the
\* assertion of sanitize_name holds for every string.
C24_SanitizeIdempotent ==
    /\ sanitize_name_(lastCall.out) = lastCall.out
    /\ lastCall.checked = lastCall.out

\* A string with a character that is not allowed, whose filtered form "aS"
\* is the keyword "as" up to case, was sanitized to "aS_".
C24_Witness ==
    /\ lastCall.name = <<"-", "a", "S">>
    /\ lastCall.out = <<"a", "S", "_">>

\* the depth of dynamic arrays in a kind: 0 for a leaf, 1 more for each array
\* around an array
RECURSIVE ArrayDepth(_)
ArrayDepth(kind) ==
    CASE kind.k = "tuple" ->
            Max({0} \cup {ArrayDepth(kind.fields[i].kind) : i \in DOMAIN kind.fields})
      [] kind.k = "fixed" -> ArrayDepth(kind.of)
      [] kind.k = "array" -> 1 + ArrayDepth(kind.of)
      [] OTHER -> 0

\* C25: the planner, and prepare_event with it, rejects an event exactly when
\* its name is not its own sanitized form, begins with '_', or an input holds
\* a dynamic array inside a dynamic array; a rejected event leaves no table,
\* no watermark and no cache entry, and every other event, with sibling
\* arrays or arrays inside tuples and fixed arrays, is accepted.
C25_PlannerRejects ==
    lastCall.op = "prepare_event" =>
        LET name == lastCall.name
            event == lastCall.event
            rejected == \/ name # sanitize_name(name)
                        \/ (name # <<>> /\ Head(name) = "_")
                        \/ \E i \in DOMAIN event : ArrayDepth(event[i].kind) > 1
        IN  /\ event_to_tables(name, event).ok = ~rejected
            /\ lastCall.ok = ~rejected
            /\ rejected => dbTables = <<>> /\ dbBlocks = <<>> /\ events = <<>>
            /\ ~rejected => name \in DOMAIN events /\ name \in DOMAIN dbTables

\* C25 happens: e(((bool[] x, address)[] a)) was refused for the array inside
\* the tuple of an array.
C25_Witness ==
    /\ lastCall.op = "prepare_event"
    /\ ~lastCall.ok
    /\ lastCall.name = <<"e">>
    /\ lastCall.event =
         <<[name |-> <<"a">>,
            kind |-> [k |-> "array",
                      of |-> [k |-> "tuple",
                              fields |-> <<[name |-> <<"x">>,
                                            kind |-> [k |-> "array", of |-> Leaf("bool")]],
                                           [name |-> <<>>, kind |-> Leaf("address")]>>]]]>>

\* store_event's sql_values for the fields of a log: the buckets of the binder
PlanBuckets(fields) ==
    bind_visits(Flatten([i \in DOMAIN fields |-> visit_value(fields[i])]),
                <<[some |-> FALSE, len |-> 0, values |-> <<>>]>>, FALSE)

\* C26 as stated: every (bucket, table) pair of a stored log has max(1,
\* array_len) rows in its table, so a row even for an empty array.
C26_RowsAtLeastOne ==
    lastCall.op = "update" /\ lastCall.ok =>
        LET statements == events[lastCall.name].insert_statements
            buckets == PlanBuckets(lastCall.fields)
        IN  \A n \in DOMAIN statements \cap DOMAIN buckets :
                Cardinality(dbTables[statements[n].table].rows)
                    = Max({1, IF buckets[n].some THEN buckets[n].len ELSE 1})

\* C26: of one stored log the primary table holds one row and the table of
\* each array bucket as many rows as the array has elements, none for an
\* empty array; every row carries the log's block_number, log_index,
\* transaction_index and address, and the row of array_index i, counted from
\* zero, holds the values of the array's element i.
C26_RowEmission ==
    lastCall.op = "update" /\ lastCall.ok =>
        LET statements == events[lastCall.name].insert_statements
            buckets == PlanBuckets(lastCall.fields)
            log == PlanLog(lastCall.name, lastCall.fields)
            fixed == <<log.block_number, log.log_index, log.transaction_index,
                       log.address>>
        IN  \A n \in DOMAIN statements \cap DOMAIN buckets :
                LET rows == dbTables[statements[n].table].rows
                    fields == statements[n].fields
                    count == IF n = 1 THEN 1 ELSE buckets[n].len
                IN  /\ Cardinality(rows) = count
                    /\ \A row \in rows : SubSeq(row, 1, FIXED_COLUMNS_COUNT) = fixed
                    /\ n > 1 =>
                         \A i \in 0..(count - 1) : \E row \in rows :
                            /\ row[FIXED_COLUMNS_COUNT + 1] = [t |-> "INTEGER", v |-> i]
                            /\ SubSeq(row, FIXED_COLUMNS_COUNT + 2, Len(row))
                                 = SubSeq(buckets[n].values, i * fields + 1,
                                          (i + 1) * fields)

\* C26 happens: a log of e(bool[] a, address[]) with two elements in a and
\* none in the second array is stored: two rows in e_a_0, none in e_array_1.
C26_Witness ==
    /\ lastCall.op = "update"
    /\ lastCall.ok
    /\ lastCall.name = <<"e">>
    /\ Len(lastCall.fields) = 2
    /\ Len(lastCall.fields[1].vs) = 2
    /\ lastCall.fields[2].vs = <<>>
    /\ Cardinality(dbTables[<<"e", "_", "a", "_", "0">>].rows) = 2
    /\ dbTables[<<"e", "_", "a", "r", "r", "a", "y", "_", "1">>].rows = {}

\* event e((bool x, address)[] a): the only input is a dynamic array of tuples
ArrayOfTuples ==
    <<[name |-> <<"a">>,
       kind |-> [k |-> "array",
                 of |-> [k |-> "tuple",
                         fields |-> <<[name |-> <<"x">>, kind |-> Leaf("bool")],
                                      [name |-> <<>>, kind |-> Leaf("address")]>>]]]>>

\* the rows of the array table of ArrayOfTuples as (array_index, x, address)
ArrayRows(name) ==
    {SubSeq(row, FIXED_COLUMNS_COUNT + 1, Len(row)) :
        row \in dbTables[name \o <<"_", "a", "_", "0">>].rows}

\* the row of element j (from 1) of the array of the log PlanUpdate stores
ElementRow(j) ==
    <<[t |-> "INTEGER", v |-> j - 1],
      [t |-> "INTEGER", v |-> 10 * (10 + j) + 1],
      [t |-> "BLOB", v |-> 10 * (10 + j) + 2]>>

\* C27 as stated: a log whose array has k >= 1 elements adds k rows to the
\* array table and none to the primary table; an empty array adds one row to
\* the primary table and none to the array table.
C27_NoPrimaryRow ==
    /\ lastCall.op = "update"
    /\ lastCall.event = ArrayOfTuples
    /\ lastCall.fields \in PlanFields(ArrayOfTuples)
    => LET k == Len(lastCall.fields[1].vs)
       IN  /\ lastCall.ok
           /\ ArrayRows(lastCall.name) = {ElementRow(j) : j \in 1..k}
           /\ Cardinality(dbTables[lastCall.name].rows) = IF k >= 1 THEN 0 ELSE 1

\* C27: storing one log of an event whose only input is a dynamic array of
\* tuples adds one row to the primary table whatever the array holds, and to
\* the array table one row per element, with array_index 0..k-1 and the
\* element's leaves: none when the array is empty.
C27_ArrayOfTuples ==
    /\ lastCall.op = "update"
    /\ lastCall.event = ArrayOfTuples
    /\ lastCall.fields \in PlanFields(ArrayOfTuples)
    => LET k == Len(lastCall.fields[1].vs)
       IN  /\ lastCall.ok
           /\ ArrayRows(lastCall.name) = {ElementRow(j) : j \in 1..k}
           /\ Cardinality(ArrayRows(lastCall.name)) = k
           /\ dbTables[lastCall.name].rows
                = {<<PlanLog(lastCall.name, lastCall.fields).block_number,
                     PlanLog(lastCall.name, lastCall.fields).log_index,
                     PlanLog(lastCall.name, lastCall.fields).transaction_index,
                     PlanLog(lastCall.name, lastCall.fields).address>>}

\* C27 happens: a log of E((bool x, address)[] a) with two elements is stored
\* and the array table has the rows of array_index 0 and 1.
C27_Witness ==
    /\ lastCall.op = "update"
    /\ lastCall.ok
    /\ lastCall.name = <<"E">>
    /\ lastCall.event = ArrayOfTuples
    /\ Len(lastCall.fields[1].vs) = 2
    /\ ArrayRows(<<"E">>) = {ElementRow(1), ElementRow(2)}

\* C28: for every descriptor the planner accepts and every value vector of
\* the descriptor's kinds, the binder fills one bucket per table of the plan,
\* the primary bucket first; bucket n holds columns(table n) values for each
\* of its rows (one row for the primary bucket, array_len rows for an array
\* bucket), so store_event's assert_eq holds; the j-th value of every row has
\* the storage type of the j-th column of its table; and the update succeeds.
C28_BindingOrder ==
    /\ lastCall.op = "update"
    /\ lastCall.fields \in PlanFields(lastCall.event)
    => LET plan == event_to_tables(lastCall.name, lastCall.event)
           all == <<plan.primary>> \o plan.dynamic_arrays
           buckets == PlanBuckets(lastCall.fields)
       IN  /\ lastCall.ok
           /\ Len(buckets) = 1 + Len(plan.dynamic_arrays)
           /\ \A n \in DOMAIN buckets :
                LET columns == all[n].columns
                    rows == IF n = 1 THEN 1 ELSE buckets[n].len
                IN  /\ buckets[n].some = (n > 1)
                    /\ Len(buckets[n].values) = Len(columns) * rows
                    /\ events[lastCall.name].insert_statements[n].fields = Len(columns)
                    /\ \A i \in DOMAIN buckets[n].values :
                         buckets[n].values[i].t
                           = abi_kind_to_sql_type(columns[((i - 1) % Len(columns)) + 1].kind)

\* C28 happens: a log of e((bool[] x, address)[2] a) is stored whose first
\* array has two elements and whose second has one: three buckets, and the
\* primary row holds the two addresses.
C28_Witness ==
    /\ lastCall.op = "update"
    /\ lastCall.ok
    /\ lastCall.name = <<"e">>
    /\ Len(lastCall.event) = 1
    /\ lastCall.event[1].kind.k = "fixed"
    /\ lastCall.event[1].kind.of.k = "tuple"
    /\ lastCall.event[1].kind.of.fields[1].kind = [k |-> "array", of |-> Leaf("bool")]
    /\ Len(lastCall.fields[1].vs[1].vs[1].vs) = 2
    /\ Len(lastCall.fields[1].vs[2].vs[1].vs) = 1
    /\ Len(PlanBuckets(lastCall.fields)) = 3
    /\ \E row \in dbTables[<<"e">>].rows :
          /\ Len(row) = FIXED_COLUMNS_COUNT + 2
          /\ row[FIXED_COLUMNS_COUNT + 1].t = "BLOB"
          /\ row[FIXED_COLUMNS_COUNT + 2].t = "BLOB"

\* C29: prepare_event of an event of leaves succeeds on either backend, each
\* leaf's column is declared with the storage type of the leaf's kind
\* (server: numeric for int and uint, boolean for bool, text for string,
\* bytes otherwise; embedded: integer for bool, blob otherwise), and the
\* value the binder produces for the leaf has that storage type.
C29_LeafStorage ==
    lastCall.op = "prepare_event" =>
        LET server(t) == CASE t \in {"int", "uint"} -> "NUMERIC"
                           [] t = "bool" -> "BOOL"
                           [] t = "string" -> "TEXT"
                           [] OTHER -> "BYTEA"
            embedded(t) == IF t = "bool" THEN "INTEGER" ELSE "BLOB"
            leaf(i) == lastCall.event[i].kind.t
            value(i) == [k |-> "leaf", t |-> leaf(i), v |-> 0]
        IN  /\ lastCall.res = "Ok"
            /\ <<"e">> \in DOMAIN dbTables
            /\ \A i \in DOMAIN lastCall.event :
                 IF lastCall.backend = "postgres"
                 THEN /\ dbTables[<<"e">>].types[FIXED_COLUMNS_COUNT + i] = server(leaf(i))
                      /\ Postgres_to_sql(value(i)).t = server(leaf(i))
                 ELSE /\ dbTables[<<"e">>].types[FIXED_COLUMNS_COUNT + i] = embedded(leaf(i))
                      /\ to_sql(value(i)).t = embedded(leaf(i))

\* C30: in a bootstrap iteration that stores a page, with earliest the least
\* of the adapters' max(start, indexed + 1) and to = min(F, earliest +
\* page_size - 1), the adapters queried are exactly those with from <= to,
\* each over [from, to]; after the update the watermark of each is (to, F),
\* and every other adapter has the rows and the watermark it had.
C30_BootstrapPage ==
    [][(pc = "logs" /\ pc' = "boot")
         => LET init == init_blocks(dbBlocks)
                earliest == Min(Range(init))
                to == Min({finalized.number, earliest + page_size - 1})
                queried == {i \in DOMAIN adapters : init[i] <= to}
            IN  /\ {queries[k].adapter : k \in DOMAIN queries} = queried
                /\ Len(queries) = Cardinality(queried)
                /\ \A k \in DOMAIN queries :
                      /\ queries[k].from = init[queries[k].adapter]
                      /\ queries[k].to = to
                /\ \A i \in queried :
                      dbBlocks'[adapters[i].name]
                        = [indexed |-> to, finalized |-> finalized.number]
                /\ \A i \in DOMAIN adapters \ queried :
                      /\ dbBlocks'[adapters[i].name] = dbBlocks[adapters[i].name]
                      /\ \A t \in EventTables(adapters[i].name) :
                            dbTables'[t].rows = dbTables[t].rows
      ]_vars

\* C31: a tick that finds no block at chain.next() leaves the chain window,
\* the rows and the watermarks as they are and run sleeps; run sleeps after
\* no other step: not when a block was appended or unwound, nor when it was
\* stored.
C31_IdleTick ==
    [][(pc \in {"sync", "block"} /\ UNCHANGED <<node, crashes>>)
         => IF pc = "sync" /\ ~get_block(Chain_next(chain)).some
            THEN /\ lastCall'.op = "sleep"
                 /\ UNCHANGED <<chain, dbTables, dbBlocks, pc>>
            ELSE lastCall'.op # "sleep"
      ]_vars

\* C31 happens: the indexer has stored the head of a chain of two blocks and
\* the next tick found no third block.
C31_Witness ==
    /\ pc = "sync"
    /\ lastCall.op = "sleep"
    /\ Len(canon) = 2
    /\ Chain_next(chain) = 3
    /\ \A i \in DOMAIN adapters : dbBlocks[adapters[i].name].indexed = 2

\* the leaves of a kind that lie outside every dynamic array, in traversal
\* order, each with the name it is emitted under: a field of a tuple has its
\* own name, an element of a fixed array the name of the array
RECURSIVE OuterLeaves(_, _)
OuterLeaves(kind, name) ==
    CASE kind.k = "tuple" ->
            Flatten([i \in DOMAIN kind.fields |->
                       OuterLeaves(kind.fields[i].kind, kind.fields[i].name)])
      [] kind.k = "fixed" -> Flatten([i \in 1..kind.n |-> OuterLeaves(kind.of, name)])
      [] kind.k = "array" -> <<>>
      [] OTHER -> <<[kind |-> kind.t, name |-> name]>>

\* the dynamic arrays of a kind in traversal order, each with its name and the
\* leaves of its element
RECURSIVE InnerArrays(_, _)
InnerArrays(kind, name) ==
    CASE kind.k = "tuple" ->
            Flatten([i \in DOMAIN kind.fields |->
                       InnerArrays(kind.fields[i].kind, kind.fields[i].name)])
      [] kind.k = "fixed" -> Flatten([i \in 1..kind.n |-> InnerArrays(kind.of, name)])
      [] kind.k = "array" -> <<[name |-> name, leaves |-> OuterLeaves(kind.of, name)]>>
      [] OTHER -> <<>>

\* C32: for an accepted descriptor the planner gives the primary table, named
\* as the event, a column for each leaf outside the dynamic arrays, in
\* traversal order, and one table for each dynamic array, in traversal order,
\* named sanitize(name_inner_index), inner being the array's name or "array"
\* and index the number of array tables before it, with a column for each
\* leaf of the array's element; a column is named sanitize(leaf_pos), leaf
\* being the leaf's name or "field" and pos its position in the table from
\* zero; the column names of a table differ pairwise.
C32_PlannerOutput ==
    lastCall.op = "prepare_event" /\ lastCall.ok =>
        LET name == lastCall.name
            event == lastCall.event
            plan == event_to_tables(name, event)
            or(n, default) == IF n = <<>> THEN default ELSE n
            columns(leaves) ==
                [j \in DOMAIN leaves |->
                   [kind |-> leaves[j].kind,
                    name |-> sanitize_name(or(leaves[j].name, <<"f","i","e","l","d">>)
                                           \o <<"_">> \o Decimal(j - 1))]]
            arrays == Flatten([i \in DOMAIN event |->
                                 InnerArrays(event[i].kind, event[i].name)])
            distinct(cs) == \A j \in DOMAIN cs : \A k \in DOMAIN cs :
                               cs[j].name = cs[k].name => j = k
        IN  /\ plan.ok
            /\ plan.primary
                 = [name |-> name,
                    columns |-> columns(Flatten([i \in DOMAIN event |->
                                   OuterLeaves(event[i].kind, event[i].name)]))]
            /\ plan.dynamic_arrays
                 = [k \in DOMAIN arrays |->
                      [name |-> sanitize_name(name \o <<"_">>
                                              \o or(arrays[k].name, <<"a","r","r","a","y">>)
                                              \o <<"_">> \o Decimal(k - 1)),
                       columns |-> columns(arrays[k].leaves)]]
            /\ distinct(plan.primary.columns)
            /\ \A k \in DOMAIN plan.dynamic_arrays :
                  distinct(plan.dynamic_arrays[k].columns)

\* C32 happens: E((bool[] x, address)[2] a) is planned: the primary table
\* holds the two addresses as field_0 and field_1, and the array tables E_x_0
\* and E_x_1 the column x_0.
C32_Witness ==
    /\ lastCall.op = "prepare_event"
    /\ lastCall.ok
    /\ lastCall.name = <<"E">>
    /\ Len(lastCall.event) = 1
    /\ lastCall.event[1].kind.k = "fixed"
    /\ lastCall.event[1].kind.of.k = "tuple"
    /\ lastCall.event[1].kind.of.fields[1].kind = [k |-> "array", of |-> Leaf("bool")]
    /\ Len(dbTables[<<"E">>].types) = FIXED_COLUMNS_COUNT + 2
    /\ Len(dbTables[<<"E", "_", "x", "_", "1">>].types) = FIXED_COLUMNS_COUNT + 2

\* the leaves of a kind in traversal order, each with the name it is emitted
\* under: the name of the tuple component it is, or else the name forwarded
\* by the arrays around it
RECURSIVE AllLeaves(_, _)
AllLeaves(kind, name) ==
    CASE kind.k = "tuple" ->
            Flatten([i \in DOMAIN kind.fields |->
                       AllLeaves(kind.fields[i].kind, kind.fields[i].name)])
      [] kind.k = "fixed" -> Flatten([i \in 1..kind.n |-> AllLeaves(kind.of, name)])
      [] kind.k = "array" -> AllLeaves(kind.of, name)
      [] OTHER -> <<[v |-> "Leaf", kind |-> kind.t, name |-> name]>>

\* the visits are nested and balanced under the open starts `stack`, innermost
\* first, and a visit right inside an array has the name of that array
RECURSIVE Nested(_, _)
Nested(visits, stack) ==
    IF visits = <<>> THEN stack = <<>>
    ELSE LET visit == Head(visits)
             forwarded == (stack # <<>> /\ Head(stack).v \in {"ArrayStart", "FixedArrayStart"})
                            => visit.name = Head(stack).name
         IN  CASE visit.v \in {"TupleStart", "FixedArrayStart", "ArrayStart"} ->
                    forwarded /\ Nested(Tail(visits), <<visit>> \o stack)
               [] visit.v = "TupleEnd" ->
                    stack # <<>> /\ Head(stack).v = "TupleStart"
                    /\ Nested(Tail(visits), Tail(stack))
               [] visit.v = "FixedArrayEnd" ->
                    stack # <<>> /\ Head(stack).v = "FixedArrayStart"
                    /\ Nested(Tail(visits), Tail(stack))
               [] visit.v = "ArrayEnd" ->
                    stack # <<>> /\ Head(stack).v = "ArrayStart"
                    /\ Nested(Tail(visits), Tail(stack))
               [] OTHER -> forwarded /\ Nested(Tail(visits), stack)

\* C33: the visits of a field are nested and balanced, begin with the field's
\* name, an array or fixed array hands its name to the visit of its element
\* (a tuple_start included), and the leaves come in traversal order, a leaf
\* of a tuple under the name of its component, empty if it has none.
C33_VisitorNames ==
    lastCall.op = "prepare_event" =>
        \A i \in DOMAIN lastCall.event :
            LET field == lastCall.event[i]
                visits == visit_field(field)
            IN  /\ Nested(visits, <<>>)
                /\ Head(visits).name = field.name
                /\ SelectSeq(visits, LAMBDA visit : visit.v = "Leaf")
                     = AllLeaves(field.kind, field.name)

\* C33 happens: the planner visited the field (bool x, address)[] a: the
\* tuple starts under the array's name a, its leaves are x and the empty name.
C33_Witness ==
    /\ lastCall.op = "prepare_event"
    /\ lastCall.event = ArrayOfTuples
    /\ visit_field(lastCall.event[1])
         = <<[v |-> "ArrayStart", name |-> <<"a">>],
             [v |-> "TupleStart", name |-> <<"a">>],
             [v |-> "Leaf", kind |-> "bool", name |-> <<"x">>],
             [v |-> "Leaf", kind |-> "address", name |-> <<>>],
             [v |-> "TupleEnd"],
             [v |-> "ArrayEnd"]>>

\* C34: after a tick of sync that stored a block, the watermark of every
\* adapter is (chain.next() - 1, the window's finalized number); after a tick
\* that unwound a reorg, all adapters have one watermark, whose indexed is
\* chain.next() - 1.
C34_WindowAgreement ==
    [][/\ (pc = "block" /\ pc' = "sync" /\ UNCHANGED <<node, crashes>>)
            => \A i \in DOMAIN adapters :
                  dbBlocks'[adapters[i].name]
                    = [indexed |-> Chain_next(chain') - 1, finalized |-> chain'.finalized]
       /\ (pc = "sync" /\ pc' = "sync" /\ UNCHANGED <<node, crashes>>
           /\ get_block(Chain_next(chain)).some)
            => \A i \in DOMAIN adapters :
                  /\ dbBlocks'[adapters[i].name].indexed = Chain_next(chain') - 1
                  /\ dbBlocks'[adapters[i].name] = dbBlocks'[adapters[1].name]
      ]_vars

\* C34 happens: block 3 was stored while the node had finalized block 2, the
\* window holds blocks 2 and 3, and both adapters are at (3, 2).
C34_Witness ==
    /\ pc = "sync"
    /\ lastCall.op = "update"
    /\ chain.finalized = 2
    /\ Chain_next(chain) = 4
    /\ \A i \in DOMAIN adapters :
          dbBlocks[adapters[i].name] = [indexed |-> 3, finalized |-> 2]

\* C35: with a node that never takes back a finalized block and calls that
\* all succeed, no tick of sync ends in an error: append finds no reorg past
\* the finalized block and finalize accepts the finalized number the node
\* reports.
C35_SyncNeverFails ==
    [][(pc \in {"sync", "block"}) => (pc' # "failed")]_vars

\* The indexer has caught up with the node: it waits for the block after the
\* head, every adapter is indexed up to the head, and above the node's
\* finalized block the rows of each adapter's primary table are the decoded
\* logs of the canonical blocks.
CaughtUp ==
    /\ pc = "sync"
    /\ Chain_next(chain) = Len(canon) + 1
    /\ \A i \in DOMAIN adapters :
          /\ adapters[i].name \in DOMAIN dbBlocks
          /\ dbBlocks[adapters[i].name].indexed = Len(canon)
          /\ \A h \in (nodeFinalized + 1)..Len(canon) :
                {<<row[1], row[2], row[3]>> :
                    row \in {r \in dbTables[adapters[i].name].rows : r[1] = h}}
                  = {<<h, log.log_index, log.transaction_index>> :
                       log \in Range(database_logs(i, block_logs(i, canon[h].hash)))}

\* C36: if the node's chain comes to rest (no block is produced any more, and
\* the finalized block, which only ever advances, stays below the head), the
\* indexer, scheduled fairly, comes to rest caught up: every adapter indexed
\* up to the head, the rows above the finalized block those of the canonical
\* blocks, every later tick idle.
C36_CatchUp ==
    <>[](Minted = MaxBlocks /\ nodeFinalized < Len(canon)) => <>[]CaughtUp

\* C37: Whatever the page size, an iteration of the bootstrap loop that stores
\* its page leaves the earliest block to initialize from, the least over the
\* adapters of max(start, indexed + 1), strictly greater than it found it; and
\* under fair scheduling the bootstrap loop is always left again.
C37_BootstrapProgress ==
    /\ [][(pc = "logs" /\ pc' = "boot")
            => (Min(Range(init_blocks(dbBlocks'))) > Min(Range(init_blocks(dbBlocks))))]_vars
    /\ ((pc \in {"boot", "logs"}) ~> (pc \notin {"boot", "logs"}))

\* A second page of one block has been stored, while one adapter waits for
\* its start block.
C37_Witness ==
    /\ pc = "boot"
    /\ lastCall.op = "update"
    /\ lastCall.ok
    /\ page_size = 1
    /\ \E i, j \in DOMAIN adapters :
          /\ event_block(dbBlocks, adapters[i].name).block.indexed = 2
          /\ init_blocks(dbBlocks)[i] = 3
          /\ init_blocks(dbBlocks)[j] = 3
          /\ adapters[j].start = 3
          /\ event_block(dbBlocks, adapters[j].name).block.indexed = 0

\* C38: every event of the backend's map has its tables, primary and array,
\* and its watermark row in the database, and a prepare_event that returns an
\* error leaves the map as it was.
C38_CacheAgreement ==
    /\ [](\A name \in DOMAIN events :
            /\ name \in DOMAIN dbBlocks
            /\ \A t \in Range(events[name].remove_statements) : t \in DOMAIN dbTables)
    /\ [][(lastCall'.op = "prepare_event" /\ ~lastCall'.ok) => (events' = events)]_vars

\* C39: two events prepared under distinct names share no table: the primary
\* and array tables of the one are none of the other's.
C39_TableOwnership ==
    \A n \in DOMAIN events : \A m \in DOMAIN events \ {n} :
        EventTables(n) \cap EventTables(m) = {}

\* C40: every Uncle {E, n} of a remove the indexer issues, in init's recovery
\* or on a live reorg, has 1 <= n <= E's indexed watermark; a remove that
\* succeeds leaves the watermark at n - 1.
C40_RemoveArguments ==
    [][(pc \in {"recover", "sync"} /\ UNCHANGED <<node, crashes>>
        /\ lastCall'.op = "remove")
         => \A k \in DOMAIN lastCall'.uncles :
              LET uncle == lastCall'.uncles[k]
              IN  /\ 1 <= uncle.number
                  /\ uncle.number <= dbBlocks[uncle.event].indexed
                  /\ lastCall'.ok => dbBlocks'[uncle.event].indexed = uncle.number - 1
                  /\ dbBlocks'[uncle.event].indexed <= dbBlocks[uncle.event].indexed]_vars

\* After a restart the recovery has uncled block 2 of an adapter whose
\* finalized watermark is 1, and left its indexed watermark at 1.
C40_Witness ==
    /\ lastCall.op = "remove"
    /\ lastCall.ok
    /\ pc = "boot"
    /\ \E k \in DOMAIN lastCall.uncles :
          /\ lastCall.uncles[k].number = 2
          /\ dbBlocks[lastCall.uncles[k].event] = [indexed |-> 1, finalized |-> 1]
====
